---- MODULE Spec2Model ----
(***************************************************************************)
(* Tutor Answer Orchestration Engine of EuclidsWindow: the answer cache    *)
(* (backend/app/cache.py and the cache helpers of                          *)
(* backend/app/ai/service.py), the diagram-job manager                     *)
(* (GenerativeTutorService.start_diagram_job and friends), the             *)
(* multi-agent coordinator (backend/app/ai/coordinator.py) with the agent  *)
(* registry (backend/app/ai/agent_registry.py), the planner                *)
(* (backend/app/ai/planner.py) over the engine (backend/app/ai/engine.py)  *)
(* and GenerativeTutorService.answer with its visualization fallback.      *)
(*                                                                         *)
(* Text is modelled as a sequence of one-character strings, so that        *)
(* str.lower, str.strip, re.sub, str.split and the "in" substring test     *)
(* are computed character by character, as Python computes them.           *)
(***************************************************************************)
EXTENDS Integers, Sequences, FiniteSets, TLC

VARIABLES
    cache,      \* SimpleCache._cache: key -> [value, expires_at]
    now,        \* time.time(), in seconds
    history,    \* observer: the _store_cached_answer calls made so far
    lastGet,    \* observer: the last _get_cached_answer call and what it returned
    subject,    \* input: the stored question of the paraphrase scenario
    putPc,      \* per caller thread: the statement of _store_cached_answer it is at
    putRecent,  \* per caller thread: its local variable recent (a list object)
    heap,       \* the list objects created so far, by reference
    enabled,    \* GenerativeTutorService.enabled
    settings,   \* SettingsStore.get_effective_settings()
    diagram_jobs,   \* GenerativeTutorService._diagram_jobs: job id -> record
    jobQueue,   \* work queue of _diagram_executor: submitted, not yet picked up
    workers,    \* per pool thread: where it is in _run_diagram_job, its locals
    ended,      \* per job: how its _run_diagram_job task ended, once it has
    polled,     \* observer: what the last get_diagram_job of a polling client returned
    coPc,       \* MultiAgentCoordinator.answer: the statement the run is at
    coNext,     \* index of the auxiliary agent the run is at
    coPlanner,  \* what the planner step of the run yielded
    coOutputs,  \* the auxiliary and web agents whose output the run holds
    coInvoked,  \* observer: the agents invoked by the run, in order
    coRet,      \* what the run returned
    coBase,     \* observer: the solution of the plan the planner step yielded
    coSolution, \* plan.solution of the run's plan
    coRuns,     \* number of answer calls begun
    metrics,    \* agent_registry._AGENT_METRICS: agent id -> AgentMetrics
    lastAnswer, \* observer: the last answer call of the service and what it did
    answers,    \* number of answer calls made
    lastPlan,   \* observer: the last TutorPlanner.plan call and what it returned
    regThreads, \* per invoking thread: where it is in the agent registry, its locals
    starting,   \* the jobs whose start_diagram_job call has not returned yet
    started, \* observer: what the last start_diagram_job call that returned got
    lastCheck, \* observer: the last SymbolicChecker.run call and what it returned
    lastEnrich, \* observer: the answer enrich_answer was last called on and what it returned
    lastCacheOp, \* observer: the last direct SimpleCache call and the sets in force
    lastDelete  \* observer: the last delete_diagram_job call and what it returned

cacheVars == <<cache, now, history, lastGet>>

putVars == <<putPc, putRecent, heap>>

jobVars == <<enabled, settings, diagram_jobs, jobQueue, workers, ended, polled>>

coordVars ==
    <<coPc, coNext, coPlanner, coOutputs, coInvoked, coRet, coBase, coSolution,
      coRuns, metrics>>

answerVars == <<lastAnswer, answers>>

plannerVars == <<lastPlan>>

registryVars == <<regThreads>>

startVars == <<starting, started>>

checkerVars == <<lastCheck>>

enrichVars == <<lastEnrich>>

simpleVars == <<lastCacheOp>>

deleteVars == <<lastDelete>>

\* What the single-caller cache actions leave alone
cacheFrame == <<subject, putVars, jobVars, coordVars, answerVars, plannerVars,
                registryVars, startVars, checkerVars, enrichVars, simpleVars, deleteVars>>

\* What the steps of a concurrent _store_cached_answer leave alone
putFrame == <<subject, jobVars, coordVars, answerVars, plannerVars, registryVars,
              startVars, checkerVars, enrichVars, simpleVars, deleteVars>>

vars ==
    <<cache, now, history, lastGet, subject, putPc, putRecent, heap,
      enabled, settings, diagram_jobs, jobQueue, workers, ended, polled,
      coPc, coNext, coPlanner, coOutputs, coInvoked, coRet, coBase, coSolution,
      coRuns, metrics,
      lastAnswer, answers,
      lastPlan,
      regThreads,
      starting, started,
      lastCheck,
      lastEnrich,
      lastCacheOp,
      lastDelete>>

----------------------------------------------------------------------------
(* Characters and text                                                     *)

UpperToLower ==
    [c \in {"A","B","C","D","E","F","G","H","I","J","K","L","M",
            "N","O","P","Q","R","S","T","U","V","W","X","Y","Z"} |->
        CASE c = "A" -> "a" [] c = "B" -> "b" [] c = "C" -> "c" [] c = "D" -> "d"
          [] c = "E" -> "e" [] c = "F" -> "f" [] c = "G" -> "g" [] c = "H" -> "h"
          [] c = "I" -> "i" [] c = "J" -> "j" [] c = "K" -> "k" [] c = "L" -> "l"
          [] c = "M" -> "m" [] c = "N" -> "n" [] c = "O" -> "o" [] c = "P" -> "p"
          [] c = "Q" -> "q" [] c = "R" -> "r" [] c = "S" -> "s" [] c = "T" -> "t"
          [] c = "U" -> "u" [] c = "V" -> "v" [] c = "W" -> "w" [] c = "X" -> "x"
          [] c = "Y" -> "y" [] c = "Z" -> "z"]

LowerLetters ==
    {"a","b","c","d","e","f","g","h","i","j","k","l","m",
     "n","o","p","q","r","s","t","u","v","w","x","y","z"}

Digits == {"0","1","2","3","4","5","6","7","8","9"}

\* The characters the regular expression class \s and str.strip() treat as blank.
Whitespace == {" ", "\t", "\n"}

\* str.lower()
LowerChar(c) == IF c \in DOMAIN UpperToLower THEN UpperToLower[c] ELSE c

Lower(s) == [i \in 1..Len(s) |-> LowerChar(s[i])]

RECURSIVE LStrip(_)
LStrip(s) ==
    IF s # <<>> /\ Head(s) \in Whitespace THEN LStrip(Tail(s)) ELSE s

RECURSIVE RStrip(_)
RStrip(s) ==
    IF s # <<>> /\ s[Len(s)] \in Whitespace
    THEN RStrip(SubSeq(s, 1, Len(s) - 1))
    ELSE s

\* str.strip()
Strip(s) == RStrip(LStrip(s))

\* re.sub(r"[^a-z0-9\s]", " ", text)
BlankOthers(s) ==
    [i \in 1..Len(s) |->
        IF s[i] \in LowerLetters \cup Digits \cup Whitespace THEN s[i] ELSE " "]

\* re.sub(r"\s+", " ", text): every maximal run of blanks becomes one space
RECURSIVE CollapseBlanks(_)
CollapseBlanks(s) ==
    IF s = <<>> THEN <<>>
    ELSE IF Head(s) \in Whitespace
         THEN <<" ">> \o CollapseBlanks(LStrip(s))
         ELSE <<Head(s)>> \o CollapseBlanks(Tail(s))

\* GenerativeTutorService._normalize_question
NormalizeQuestion(question) == CollapseBlanks(BlankOthers(Strip(Lower(question))))

\* The first blank-free run of s (s starts with a non-blank character).
RECURSIVE FirstWord(_)
FirstWord(s) ==
    IF s = <<>> \/ Head(s) \in Whitespace THEN <<>>
    ELSE <<Head(s)>> \o FirstWord(Tail(s))

\* str.split() with no argument, as a set: GenerativeTutorService._tokenize
RECURSIVE Tokenize(_)
Tokenize(text) ==
    LET t == LStrip(text)
    IN  IF t = <<>> THEN {}
        ELSE LET w == FirstWord(t)
             IN  {w} \cup Tokenize(SubSeq(t, Len(w) + 1, Len(t)))

\* GenerativeTutorService._jaccard, as the fraction <<numerator, denominator>>
Jaccard(a, b) ==
    IF a = {} \/ b = {} THEN <<0, 1>>
    ELSE <<Cardinality(a \cap b), Cardinality(a \cup b)>>

\* x > y and x >= y on fractions with positive denominators
FracGt(x, y) == x[1] * y[2] > y[1] * x[2]

\* Mutant of FracGe: the threshold test written with > for >=
FracGe_Strict(x, y) == x[1] * y[2] > y[1] * x[2]

FracGe(x, y) == x[1] * y[2] >= y[1] * x[2]

\* The similarity threshold 0.9 of _get_cached_answer
SimilarityThreshold == <<9, 10>>

----------------------------------------------------------------------------
(* SimpleCache (backend/app/cache.py)                                      *)

\* Python's None, a (solution, visualization) tuple and a list, as cache values.
None == [kind |-> "none", val |-> <<>>]

TupleValue(pair) == [kind |-> "tuple", val |-> pair]

ListValue(items) == [kind |-> "list", val |-> items]

\* Python truth of a cache value: None and the empty list are false.
Truthy(v) == v.kind = "tuple" \/ (v.kind = "list" /\ v.val # <<>>)

\* self.cache_ttl_seconds
cache_ttl_seconds == 600

\* recent[-50:]
RecentCap == 50

DropKey(c, key) == [k \in DOMAIN c \ {key} |-> c[k]]

\* SimpleCache.get, had a read of a live entry renewed its lifetime
CacheGet_Renews(c, t, key) ==
    IF key \notin DOMAIN c THEN [value |-> None, cache |-> c]
    ELSE IF t > c[key].expires_at
         THEN [value |-> None, cache |-> DropKey(c, key)]
         ELSE [value |-> c[key].value,
               cache |-> [c EXCEPT ![key].expires_at = t + cache_ttl_seconds]]

\* SimpleCache.get at time t: the value read and the dict afterwards
\* (an expired entry is deleted by the read).
CacheGet(c, t, key) ==
    IF key \notin DOMAIN c THEN [value |-> None, cache |-> c]
    ELSE IF t > c[key].expires_at
         THEN [value |-> None, cache |-> DropKey(c, key)]
         ELSE [value |-> c[key].value, cache |-> c]

\* SimpleCache.set at time t with a ttl
CacheSet(c, t, key, value, ttl) ==
    [k \in DOMAIN c \cup {key} |->
        IF k = key THEN [value |-> value, expires_at |-> t + ttl] ELSE c[k]]

----------------------------------------------------------------------------
(* Answer cache of GenerativeTutorService                                  *)

\* f"tutor:{normalized}"
ExactKey(question) ==
    <<"t","u","t","o","r",":">> \o NormalizeQuestion(question)

\* "tutor:recent"
RecentKey == <<"t","u","t","o","r",":","r","e","c","e","n","t">>

\* seq[-n:]
LastN(seq, n) ==
    IF Len(seq) <= n THEN seq ELSE SubSeq(seq, Len(seq) - n + 1, Len(seq))

\* cache.get("tutor:recent") or []
RecentOrEmpty(v) == IF Truthy(v) THEN v ELSE ListValue(<<>>)

\* The loop of _get_cached_answer from entry i on: best is the index of the
\* best entry so far (0 for None), score its similarity.
RECURSIVE ScanRecent(_, _, _, _, _)
ScanRecent(recent, i, tokens, best, score) ==
    IF i > Len(recent) THEN [best |-> best, score |-> score]
    ELSE LET s == Jaccard(tokens, recent[i].tokens)
         IN  IF FracGt(s, score)
             THEN ScanRecent(recent, i + 1, tokens, i, s)
             ELSE ScanRecent(recent, i + 1, tokens, best, score)

\* GenerativeTutorService._get_cached_answer at time t: what the call does
\* (outcome: hit, miss or raise), the return statement that produced a hit
\* (path), the value returned and the cache dict afterwards.
GetCachedAnswer(c, t, question) ==
    LET normalized == NormalizeQuestion(question)
        g1 == CacheGet(c, t, ExactKey(question))
    IN  IF Truthy(g1.value)
        THEN [outcome |-> "hit", path |-> "exact", value |-> g1.value,
              cache |-> g1.cache]
        ELSE
        LET g2 == CacheGet(g1.cache, t, RecentKey)
            recent == RecentOrEmpty(g2.value)
        IN  IF recent.kind # "list"
            \* iterating a (solution, visualization) tuple: entry.get raises
            THEN [outcome |-> "raise", path |-> "none", value |-> None,
                  cache |-> g2.cache]
            ELSE
            LET s == ScanRecent(recent.val, 1, Tokenize(normalized), 0, <<0, 1>>)
            IN  IF s.best # 0 /\ FracGe(s.score, SimilarityThreshold)
                THEN [outcome |-> "hit", path |-> "similar",
                      value |-> TupleValue(recent.val[s.best].result),
                      cache |-> g2.cache]
                ELSE [outcome |-> "miss", path |-> "none", value |-> None,
                      cache |-> g2.cache]

\* GenerativeTutorService._store_cached_answer at time t: whether the call
\* raised and the cache dict afterwards.
StoreCachedAnswer(c, t, question, solution, visualization) ==
    LET normalized == NormalizeQuestion(question)
        c1 == CacheSet(c, t, ExactKey(question),
                       TupleValue(<<solution, visualization>>), cache_ttl_seconds)
        g == CacheGet(c1, t, RecentKey)
        recent == RecentOrEmpty(g.value)
    IN  IF recent.kind # "list"
        \* a tuple has no append: AttributeError
        THEN [raised |-> TRUE, cache |-> g.cache]
        ELSE
        LET entry == [tokens |-> Tokenize(normalized),
                      result |-> <<solution, visualization>>]
            kept == LastN(Append(recent.val, entry), RecentCap)
        IN  [raised |-> FALSE,
             cache |-> CacheSet(g.cache, t, RecentKey, ListValue(kept),
                                cache_ttl_seconds)]

----------------------------------------------------------------------------
(* Deterministic visualization planner (backend/app/ai/visual_planner.py)  *)

\* token in q
Contains(q, token) ==
    \E i \in 1..(Len(q) - Len(token) + 1) :
        SubSeq(q, i, i + Len(token) - 1) = token

ContainsAny(q, tokens) == \E token \in tokens : Contains(q, token)

\* VisualizationPlanner.VISUAL_TOPIC_TOKENS
VISUAL_TOPIC_TOKENS ==
    {<<"e","i","g","e","n","v","a","l","u","e">>,
     <<"e","i","g","e","n","v","e","c","t","o","r">>,
     <<"p","a","r","a","b","o","l","a">>,
     <<"q","u","a","d","r","a","t","i","c">>,
     <<"s","i","n","e">>,
     <<"c","o","s","i","n","e">>,
     <<"t","r","i","g">>,
     <<"d","e","r","i","v","a","t","i","v","e">>,
     <<"t","a","n","g","e","n","t">>,
     <<"f","r","a","c","t","i","o","n">>,
     <<"f","r","a","c","t","i","o","n","s">>,
     <<"s","y","s","t","e","m"," ","o","f"," ","e","q","u","a","t","i","o","n","s">>,
     <<"s","y","s","t","e","m","s"," ","o","f"," ","e","q","u","a","t","i","o","n","s">>,
     <<"i","m","a","g","i","n","a","r","y"," ","n","u","m","b","e","r">>,
     <<"i","m","a","g","i","n","a","r","y"," ","n","u","m","b","e","r","s">>,
     <<"c","o","m","p","l","e","x"," ","n","u","m","b","e","r">>,
     <<"c","o","m","p","l","e","x"," ","n","u","m","b","e","r","s">>,
     <<"c","o","m","p","l","e","x"," ","p","l","a","n","e">>,
     <<"h","a","m","i","l","t","o","n","i","a","n"," ","g","r","a","p","h">>,
     <<"h","a","m","i","l","t","o","n","i","a","n"," ","c","y","c","l","e">>,
     <<"g","r","a","p","h"," ","t","h","e","o","r","y">>}

\* The keyword groups of VisualizationPlanner.plan, in the order of its tests
RecipeGroups ==
    <<[recipe |-> "hamiltonian",
       tokens |-> {<<"h","a","m","i","l","t","o","n","i","a","n"," ","g","r","a","p","h">>,
                   <<"h","a","m","i","l","t","o","n","i","a","n"," ","c","y","c","l","e">>}],
      [recipe |-> "fraction",
       tokens |-> {<<"f","r","a","c","t","i","o","n">>,
                   <<"f","r","a","c","t","i","o","n","s">>}],
      [recipe |-> "systems",
       tokens |-> {<<"s","y","s","t","e","m"," ","o","f"," ","e","q","u","a","t","i","o","n","s">>,
                   <<"s","y","s","t","e","m","s"," ","o","f"," ","e","q","u","a","t","i","o","n","s">>,
                   <<"s","i","m","u","l","t","a","n","e","o","u","s"," ","e","q","u","a","t","i","o","n","s">>}],
      [recipe |-> "complex",
       tokens |-> {<<"i","m","a","g","i","n","a","r","y"," ","n","u","m","b","e","r">>,
                   <<"i","m","a","g","i","n","a","r","y"," ","n","u","m","b","e","r","s">>,
                   <<"c","o","m","p","l","e","x"," ","n","u","m","b","e","r">>,
                   <<"c","o","m","p","l","e","x"," ","n","u","m","b","e","r","s">>,
                   <<"c","o","m","p","l","e","x"," ","p","l","a","n","e">>}],
      [recipe |-> "eigen",
       tokens |-> {<<"e","i","g","e","n","v","a","l","u","e">>,
                   <<"e","i","g","e","n","v","a","l","u","e","s">>,
                   <<"e","i","g","e","n","v","e","c","t","o","r">>,
                   <<"e","i","g","e","n","v","e","c","t","o","r","s">>}],
      [recipe |-> "parabola",
       tokens |-> {<<"p","a","r","a","b","o","l","a">>,
                   <<"q","u","a","d","r","a","t","i","c">>}],
      [recipe |-> "trig",
       tokens |-> {<<"s","i","n","e">>,
                   <<"c","o","s","i","n","e">>,
                   <<"t","r","i","g">>,
                   <<"s","i","n","(">>,
                   <<"c","o","s","(">>}],
      [recipe |-> "derivative",
       tokens |-> {<<"d","e","r","i","v","a","t","i","v","e">>,
                   <<"t","a","n","g","e","n","t">>}]>>

\* Python's None where a visualization payload may be
NoViz == "none"

\* VisualizationPlanner.plan returning None
NoRecipe == "none"

\* VisualizationPlanner.plan: the recipe of the first keyword group that
\* matches the lowered question
RECURSIVE PlanFrom(_, _)
PlanFrom(q, i) ==
    IF i > Len(RecipeGroups) THEN NoRecipe
    ELSE IF ContainsAny(q, RecipeGroups[i].tokens) THEN RecipeGroups[i].recipe
         ELSE PlanFrom(q, i + 1)

VisualPlan(question) == PlanFrom(Lower(question), 1)

\* VisualizationPlanner.is_visual_topic
is_visual_topic(question) == ContainsAny(Lower(question), VISUAL_TOPIC_TOKENS)

----------------------------------------------------------------------------
(* Visualization execution of GenerativeTutorService                       *)

\* tokens of _question_requests_visualization
RequestTokens ==
    {<<"v","i","s","u","a","l","i","z","a","t","i","o","n">>,
     <<"v","i","s","u","a","l","i","s","e">>,
     <<"v","i","s","u","a","l","i","z","e">>,
     <<"p","l","o","t">>,
     <<"g","r","a","p","h">>,
     <<"a","n","i","m","a","t","e">>,
     <<"a","n","i","m","a","t","i","o","n">>}

\* GenerativeTutorService._question_requests_visualization
QuestionRequestsVisualization(question) ==
    ContainsAny(Lower(question), RequestTokens)

\* the test that guards every use of the deterministic planner
LooksVisual(question) ==
    QuestionRequestsVisualization(question) \/ is_visual_topic(question)

\* An exception leaving the call, where a payload would have been returned
Raised == "raised"

EmptyCode == "empty"

\* The payload built from a plan of the language model, by type
GeneratedPayload(type) == IF type = "plotly" THEN "generated_plotly" ELSE "generated_manim"

\* _execute_visualization_plan: what executing code of the given type can
\* return. execute_plotly and execute_manim return None for empty code;
\* execute_plotly turns every failure into None; execute_manim turns a
\* non-zero exit, a missing output and a timeout into None and lets any other
\* exception (writing the script, spawning the process, copying the output)
\* out; any other type yields None.
ExecuteVisualizationPlan(type, code, payload) ==
    IF type \notin {"plotly", "manim"} \/ code = EmptyCode THEN {NoViz}
    ELSE IF type = "plotly" THEN {payload, NoViz}
         ELSE {payload, NoViz, Raised}

\* The recipes of the deterministic planner are plotly code; the payload of
\* a recipe is named after it.
ExecuteRecipe(recipe) == ExecuteVisualizationPlan("plotly", "code", recipe)

\* The guarded use of the deterministic planner: the body of
\* fallback_visualization and both fallback branches of _execute_visualization
FallbackVisualization(question) ==
    IF ~LooksVisual(question) THEN {NoViz}
    ELSE IF VisualPlan(question) = NoRecipe THEN {NoViz}
         ELSE ExecuteRecipe(VisualPlan(question))

\* A TutorPlan without a visualization
NoPlanViz == [type |-> "none", code |-> EmptyCode]

\* GenerativeTutorService._execute_visualization, given what the guarded
\* use of the deterministic planner can return for the question: the
\* payloads it can return (NoViz for None, Raised for an exception)
ExecuteVisualizationGiven(plan, fallback) ==
    IF ~plan.needs_visualization \/ plan.visualization = NoPlanViz
    THEN fallback
    ELSE IF plan.visualization.type \notin {"plotly", "manim"} THEN {NoViz}
    ELSE UNION {IF v = NoViz THEN fallback ELSE {v} :
                v \in ExecuteVisualizationPlan(plan.visualization.type,
                                               plan.visualization.code,
                                               GeneratedPayload(plan.visualization.type))}

ExecuteVisualization(plan, question) ==
    ExecuteVisualizationGiven(plan, FallbackVisualization(question))

----------------------------------------------------------------------------
(* GenerativeTutorService.answer                                           *)

\* SettingsStore.get_effective_settings over the stored settings: fast mode
\* switches the multi-agent path off.
EffectiveSettings(st) ==
    [st EXCEPT !.local_multi_agent_enabled = IF st.fast_mode_enabled THEN FALSE ELSE @]

\* config.py defaults
DefaultSettings ==
    [local_ai_enabled |-> TRUE, local_multi_agent_enabled |-> TRUE,
     fast_mode_enabled |-> FALSE]

\* Solution texts of the language model: a text beyond the 800 characters
\* that fast mode keeps
GeneratedSolutions == {"long"}

\* GenerativeTutorService._apply_fast_mode
ApplyFastMode(solution) == IF solution = "long" THEN "trimmed" ELSE solution

PlanVisualizations ==
    {NoPlanViz} \cup
    {[type |-> t, code |-> c] : t \in {"svg", "plotly", "manim"}, c \in {EmptyCode, "code"}}

\* The TutorPlan values a generation can yield
Plans ==
    [solution : GeneratedSolutions, needs_visualization : BOOLEAN,
     visualization : PlanVisualizations]

NoPlan == [solution |-> "none", needs_visualization |-> FALSE, visualization |-> NoPlanViz]

\* What the generation step of answer can yield under the effective settings
\* e: MultiAgentCoordinator.answer returns a plan or None (its planner and
\* agent steps catch every exception); TutorPlanner.plan returns a plan or
\* None or raises (the HTTP call catches URLError only: a timeout while the
\* body is read, or a body that is not JSON, gets out).
GenerationOutcomes(e) ==
    {[kind |-> "none", plan |-> NoPlan]}
    \cup {[kind |-> "plan", plan |-> p] : p \in Plans}
    \cup (IF e.local_multi_agent_enabled /\ ~e.fast_mode_enabled THEN {}
          ELSE {[kind |-> "raise", plan |-> NoPlan]})

AnswerNone(c, en) ==
    [ret |-> "none", value |-> None, cache |-> c, enabled |-> en, generated |-> FALSE]

AnswerRaise(c, en, gen) ==
    [ret |-> "raise", value |-> None, cache |-> c, enabled |-> en, generated |-> gen]

\* The generation and visualization steps of answer for one outcome o of the
\* generation: what the call holds before it writes the cache
GeneratedResults(e, fallback, o) ==
    IF o.kind # "plan"
    THEN {[kind |-> o.kind, solution |-> "none", visualization |-> NoViz]}
    ELSE {[kind |-> IF v = Raised THEN "raise" ELSE "answer",
           solution |-> IF e.fast_mode_enabled THEN ApplyFastMode(o.plan.solution)
                        ELSE o.plan.solution,
           visualization |-> v] :
          v \in ExecuteVisualizationGiven(o.plan, fallback)}

\* The end of answer: _store_cached_answer and the return
AnswerStore(c, t, question, r) ==
    IF r.kind = "none" THEN AnswerNone(c, TRUE)
    ELSE IF r.kind = "raise" THEN AnswerRaise(c, TRUE, TRUE)
    ELSE LET s == StoreCachedAnswer(c, t, question, r.solution, r.visualization)
         IN  IF s.raised THEN AnswerRaise(s.cache, TRUE, TRUE)
             ELSE [ret |-> "answer",
                   value |-> TupleValue(<<r.solution, r.visualization>>),
                   cache |-> s.cache, enabled |-> TRUE, generated |-> TRUE]

\* GenerativeTutorService.answer at time t, with self.enabled = en and the
\* settings store holding st: every way the call can end. ret is "answer"
\* (value returned), "none" (None returned) or "raise"; cache and enabled are
\* the cache dict and self.enabled afterwards; generated tells whether the
\* generation step was reached.
Answer(c, t, en, st, question) ==
    IF ~en THEN {AnswerNone(c, en)}
    ELSE
    LET g == GetCachedAnswer(c, t, question)
        e == EffectiveSettings(st)
        fallback == FallbackVisualization(question)
    IN  IF g.outcome = "raise" THEN {AnswerRaise(g.cache, en, FALSE)}
        ELSE IF g.outcome = "hit"
        THEN {[ret |-> "answer", value |-> g.value, cache |-> g.cache,
               enabled |-> en, generated |-> FALSE]}
        ELSE IF ~e.local_ai_enabled THEN {AnswerNone(g.cache, FALSE)}
        ELSE {AnswerStore(g.cache, t, question, r) :
              r \in UNION {GeneratedResults(e, fallback, o) :
                           o \in GenerationOutcomes(e)}}

----------------------------------------------------------------------------
(* Diagram jobs of GenerativeTutorService: records                         *)

\* ThreadPoolExecutor(max_workers=2)
PoolSize == 2

Workers == 1..PoolSize

\* Number of jobs submitted in a run of the model
MaxJobs == 2

\* The ids start_diagram_job issues, in the order it issues them (each
\* f"viz-{uuid4().hex[:12]}" is taken to be fresh)
JobIds == 1..MaxJobs

\* Python's None where an error text may be
NoError == "none"

\* Python's None where a question may be
NoQuestion == <<>>

ProgressQueued == 5

ProgressRunning == 25

ProgressDone == 100

ProgressNotFound == 0

NoPlanMessage == "No diagram plan available for this topic yet."

\* The record start_diagram_job stores
QueuedRecord(job_id, question) ==
    [id |-> job_id, status |-> "queued", progress |-> ProgressQueued,
     question |-> question, visualization |-> NoViz, error |-> NoError]

\* What get_diagram_job returns for an id without a record
NotFoundRecord(job_id) ==
    [id |-> job_id, status |-> "not_found", progress |-> ProgressNotFound,
     question |-> NoQuestion, visualization |-> NoViz,
     error |-> "Diagram job not found"]

\* _update_diagram_job, had it stored the updates under an id without a
\* record
UpdateDiagramJob_Upserts(jobs, job_id, updates) ==
    IF job_id \notin DOMAIN jobs
    THEN (job_id :> [f \in DOMAIN QueuedRecord(job_id, NoQuestion) |->
                        IF f \in DOMAIN updates THEN updates[f]
                        ELSE QueuedRecord(job_id, NoQuestion)[f]]) @@ jobs
    ELSE [jobs EXCEPT ![job_id] =
            [f \in DOMAIN @ |-> IF f \in DOMAIN updates THEN updates[f] ELSE @[f]]]

\* GenerativeTutorService._update_diagram_job: row.update(updates), and
\* nothing when the id has no record
UpdateDiagramJob(jobs, job_id, updates) ==
    IF job_id \notin DOMAIN jobs THEN jobs
    ELSE [jobs EXCEPT ![job_id] =
            [f \in DOMAIN @ |-> IF f \in DOMAIN updates THEN updates[f] ELSE @[f]]]

\* GenerativeTutorService.get_diagram_job
GetDiagramJob(jobs, job_id) ==
    IF job_id \in DOMAIN jobs THEN jobs[job_id] ELSE NotFoundRecord(job_id)

\* A pool thread that runs no task
IdleWorker == [pc |-> "idle", job_id |-> 0, question |-> NoQuestion, viz |-> NoViz]

\* The service as constructed, with no job submitted
JobsIdle ==
    /\ enabled = DefaultSettings.local_ai_enabled
    /\ settings = DefaultSettings
    /\ diagram_jobs = <<>>
    /\ jobQueue = <<>>
    /\ workers = [w \in Workers |-> IdleWorker]
    /\ ended = <<>>
    /\ polled = <<>>

----------------------------------------------------------------------------
(* Multi-agent coordinator (backend/app/ai/coordinator.py): state          *)

\* No answer call of the coordinator has been made.
CoordIdle ==
    /\ coPc = "idle"
    /\ coNext = 0
    /\ coPlanner = "pending"
    /\ coOutputs = {}
    /\ coInvoked = <<>>
    /\ coRet = "pending"
    /\ coBase = <<>>
    /\ coSolution = <<>>
    /\ coRuns = 0
    /\ metrics = <<>>


\* No answer call of the service has been made.
AnswerIdle ==
    /\ lastAnswer = <<>>
    /\ answers = 0


\* No plan call of the planner has been made.
PlannerIdle == lastPlan = <<>>


\* No thread is inside the agent registry.
RegistryIdle == regThreads = <<>>


\* No start_diagram_job call has been made.
StartIdle ==
    /\ starting = {}
    /\ started = <<>>


\* SymbolicChecker.run has not been called.
CheckerIdle == lastCheck = <<>>


\* enrich_answer has not been called.
EnrichIdle == lastEnrich = <<>>


\* No SimpleCache method has been called directly.
SimpleIdle == lastCacheOp = <<>>


\* delete_diagram_job has not been called with its return observed.
DeleteIdle == lastDelete = <<>>

----------------------------------------------------------------------------
(* The answer cache, one caller at a time                                  *)

\* Bounds of the cache scenarios
MaxPuts == 2

MaxTicks == 3

\* The clock advances in steps of half a TTL, so that a read can fall exactly
\* on an expiry time (still readable) and on the step after it.
TickStep == cache_ttl_seconds \div 2

Visualizations == {NoViz, "payload"}

QEigen == <<"E","x","p","l","a","i","n"," ","e","i","g","e","n","v","a","l","u","e","s">>

QEigenLoud ==
    <<"e","x","p","l","a","i","n"," "," "," ","E","I","G","E","N","V","A","L","U","E","S","!","!">>

QExplain == <<"E","x","p","l","a","i","n">>

QRecent == <<"R","e","c","e","n","t">>

CacheQuestions == {QEigen, QEigenLoud, QExplain, QRecent}

NoGet ==
    [question |-> <<>>, at |-> 0, puts |-> 0, outcome |-> "never",
     path |-> "none", value |-> None, recent |-> None]

CacheIdle ==
    /\ cache = <<>>
    /\ now = 0
    /\ history = <<>>
    /\ lastGet = NoGet

\* put: _store_cached_answer(question, solution, visualization). The text of
\* the n-th stored answer is written n.
CachePutStep(question, visualization) ==
    /\ Len(history) < MaxPuts
    /\ LET solution == Len(history) + 1
           r == StoreCachedAnswer(cache, now, question, solution, visualization)
       IN  /\ cache' = r.cache
           /\ history' = Append(history,
                  [question |-> question, result |-> <<solution, visualization>>,
                   at |-> now, raised |-> r.raised])
    /\ UNCHANGED <<now, lastGet>>

\* get: _get_cached_answer(question). The observer keeps the list the call
\* scanned (its local variable recent; None when the exact key hit).
CacheGetStep(question) ==
    /\ LET g == GetCachedAnswer(cache, now, question)
           exact == CacheGet(cache, now, ExactKey(question))
       IN  /\ cache' = g.cache
           /\ lastGet' =
                [question |-> question, at |-> now, puts |-> Len(history),
                 outcome |-> g.outcome, path |-> g.path, value |-> g.value,
                 recent |-> IF g.path = "exact" THEN None
                            ELSE RecentOrEmpty(CacheGet(exact.cache, now, RecentKey).value)]
    /\ UNCHANGED <<now, history>>

\* time passes
TickStepAction ==
    /\ now + TickStep <= MaxTicks * TickStep
    /\ now' = now + TickStep
    /\ UNCHANGED <<cache, history, lastGet>>

CachePut(question, visualization) ==
    CachePutStep(question, visualization) /\ UNCHANGED cacheFrame

CacheGetAnswer(question) == CacheGetStep(question) /\ UNCHANGED cacheFrame

Tick == TickStepAction /\ UNCHANGED cacheFrame

\* No caller thread is inside _store_cached_answer.
PutIdle ==
    /\ putPc = <<>>
    /\ putRecent = <<>>
    /\ heap = <<>>

CacheInit ==
    /\ CacheIdle /\ subject = <<>> /\ PutIdle /\ JobsIdle
    /\ CoordIdle /\ AnswerIdle /\ PlannerIdle /\ RegistryIdle /\ StartIdle /\ CheckerIdle /\ EnrichIdle /\ SimpleIdle /\ DeleteIdle

CacheNext ==
    \/ \E q \in CacheQuestions, v \in Visualizations : CachePut(q, v)
    \/ \E q \in CacheQuestions : CacheGetAnswer(q)
    \/ Tick

SpecCache == CacheInit /\ [][CacheNext]_vars

----------------------------------------------------------------------------
(* Claims about the answer cache (SpecCache)                               *)

\* The words of a text: its maximal runs of letters and digits, in lower case.
RECURSIVE AlnumWords(_)
AlnumWords(s) ==
    LET IsAlnum(c) == LowerChar(c) \in LowerLetters \cup Digits
        RECURSIVE SkipOthers(_)
        SkipOthers(t) ==
            IF t # <<>> /\ ~IsAlnum(Head(t)) THEN SkipOthers(Tail(t)) ELSE t
        RECURSIVE Run(_)
        Run(t) ==
            IF t = <<>> \/ ~IsAlnum(Head(t)) THEN <<>>
            ELSE <<LowerChar(Head(t))>> \o Run(Tail(t))
        rest == SkipOthers(s)
    IN  IF rest = <<>> THEN <<>>
        ELSE <<Run(rest)>> \o AlnumWords(SubSeq(rest, Len(Run(rest)) + 1, Len(rest)))

\* Two questions that differ only in letter case, punctuation and blanks.
SameWording(q1, q2) == AlnumWords(q1) = AlnumWords(q2)

\* The buffer entry a put appends.
EntryOfPut(p) ==
    [tokens |-> Tokenize(NormalizeQuestion(p.question)), result |-> p.result]

\* C4: a get never returns the result of a put whose own TTL (600 s after
\* the put) has elapsed, neither from the exact key nor from the recency
\* buffer.
C4_ExpiredAnswerUnreachable ==
    \A i \in 1..Len(history) :
        (lastGet.outcome = "hit" /\ lastGet.value = TupleValue(history[i].result))
            => lastGet.at <= history[i].at + cache_ttl_seconds

\* C6: after put(q, s, v) and within the TTL, get(q2) hits the exact key and
\* returns (s, v) for every q2 that differs from q only in case, punctuation
\* and blanks (put i is the latest put of that wording before the get).
C6_SameWordingHitsExactKey ==
    \A i \in 1..lastGet.puts :
        ( /\ lastGet.outcome # "never"
          /\ SameWording(history[i].question, lastGet.question)
          /\ \A j \in (i + 1)..lastGet.puts :
                ~SameWording(history[j].question, lastGet.question)
          /\ ~history[i].raised
          /\ lastGet.at <= history[i].at + cache_ttl_seconds )
        => /\ lastGet.outcome = "hit"
           /\ lastGet.path = "exact"
           /\ lastGet.value = TupleValue(history[i].result)

\* C7: when the exact key misses, get returns the result of a buffer entry of
\* highest Jaccard similarity if that similarity is at least 0.9, and
\* otherwise misses.
C7_SimilarityStepDecides ==
    (lastGet.outcome # "never" /\ lastGet.path # "exact") =>
        LET entries == IF lastGet.recent.kind = "list" THEN lastGet.recent.val ELSE <<>>
            tokens == Tokenize(NormalizeQuestion(lastGet.question))
            Score(k) == Jaccard(tokens, entries[k].tokens)
            K == 1..Len(entries)
        IN  IF \E k \in K : FracGe(Score(k), <<9, 10>>)
            THEN /\ lastGet.outcome = "hit"
                 /\ \E k \in K :
                        /\ \A m \in K : FracGe(Score(k), Score(m))
                        /\ lastGet.value = TupleValue(entries[k].result)
            ELSE lastGet.outcome = "miss"

\* C9: while the buffer has not expired it holds, in insertion order, exactly
\* the latest (at most 50) answers stored since it was last empty, and the
\* latest put has also written its exact-key slot with the same result.
C9_BufferHoldsLatestPuts ==
    LET n == Len(history)
        \* put i and every later put came within a TTL of its predecessor
        Chained(i) ==
            \A k \in i..(n - 1) : history[k + 1].at <= history[k].at + cache_ttl_seconds
        first == CHOOSE i \in 1..n : Chained(i) /\ \A j \in 1..(i - 1) : ~Chained(j)
        expected == [k \in 1..(n - first + 1) |-> EntryOfPut(history[first + k - 1])]
    IN  (n > 0 /\ now <= history[n].at + cache_ttl_seconds) =>
            /\ RecentKey \in DOMAIN cache
            /\ cache[RecentKey].value = ListValue(LastN(expected, 50))
            /\ Len(cache[RecentKey].value.val) <= 50
            /\ ExactKey(history[n].question) \in DOMAIN cache
            /\ cache[ExactKey(history[n].question)].value = TupleValue(history[n].result)

----------------------------------------------------------------------------
(* The paraphrase scenario: a stored question asked again with a trailing  *)
(* "please"                                                                *)

\* The longest stored question of the scenario, in words
MaxWords == 10

Alphabet ==
    <<"a","b","c","d","e","f","g","h","i","j","k","l","m",
      "n","o","p","q","r","s","t","u","v","w","x","y","z">>

\* The question "a b c ..." of n one-letter words
RECURSIVE WordsQuestion(_)
WordsQuestion(n) ==
    IF n = 0 THEN <<>>
    ELSE IF n = 1 THEN <<Alphabet[1]>>
    ELSE WordsQuestion(n - 1) \o <<" ", Alphabet[n]>>

Please == <<" ","p","l","e","a","s","e">>

PleaseInit ==
    /\ CacheIdle
    /\ PutIdle
    /\ JobsIdle
    /\ CoordIdle /\ AnswerIdle /\ PlannerIdle /\ RegistryIdle /\ StartIdle /\ CheckerIdle /\ EnrichIdle /\ SimpleIdle /\ DeleteIdle
    /\ subject \in {WordsQuestion(n) : n \in 0..MaxWords}

PleaseNext ==
    \/ \E q \in {subject, QRecent} : CachePut(q, NoViz)
    \/ CacheGetAnswer(subject \o Please)
    \/ Tick

SpecPlease == PleaseInit /\ [][PleaseNext]_vars

\* The get of the scenario scanned a buffer that holds the stored question.
PleaseAskedOfStored ==
    /\ lastGet.outcome # "never"
    /\ lastGet.question = subject \o Please
    /\ lastGet.recent.kind = "list"
    /\ \E k \in 1..Len(lastGet.recent.val) :
          lastGet.recent.val[k].tokens = Tokenize(NormalizeQuestion(subject))

\* C8 as claimed: a stored question of any length asked again with a trailing
\* "please" gets the cached result.
C8_PleaseAlwaysHits ==
    PleaseAskedOfStored => lastGet.outcome = "hit"

\* C8 as amended: a stored question of at least 9 distinct tokens asked again
\* with a trailing "please" gets a result cached for that question, as long
\* as the recency buffer holds its entry.
C8_PleaseHitsFromNineTokens ==
    (PleaseAskedOfStored /\ Cardinality(Tokenize(NormalizeQuestion(subject))) >= 9) =>
        /\ lastGet.outcome = "hit"
        /\ \E i \in 1..lastGet.puts :
              /\ history[i].question = subject
              /\ lastGet.value = TupleValue(history[i].result)

C8_Witness ==
    /\ PleaseAskedOfStored
    /\ Cardinality(Tokenize(NormalizeQuestion(subject))) = 9
    /\ lastGet.outcome = "hit"
    /\ lastGet.path = "similar"

----------------------------------------------------------------------------
(* _store_cached_answer under concurrent callers: request threads and      *)
(* diagram workers run it with no lock, one statement at a time. A list is *)
(* a heap object: cache.get hands out the stored object itself, append     *)
(* changes it in place and recent[-50:] makes a new one.                   *)

\* Concurrent callers of the scenario
NumThreads == 2

Threads == 1..NumThreads

\* Caller t stores the one-word question made of the t-th letter, with the
\* answer text t.
ThreadQuestion(t) == <<Alphabet[t]>>

ThreadResult(t) == <<t, NoViz>>

ThreadEntry(t) ==
    [tokens |-> Tokenize(NormalizeQuestion(ThreadQuestion(t))),
     result |-> ThreadResult(t)]

\* A reference to heap object r, as a cache value
ListRef(r) == [kind |-> "listref", val |-> <<r>>]

\* An answer stored before the concurrent callers arrive
PriorQuestion == <<"z">>

PriorResult == <<0, NoViz>>

PriorEntry ==
    [tokens |-> Tokenize(NormalizeQuestion(PriorQuestion)), result |-> PriorResult]

\* The callers find the cache empty or holding one earlier answer.
PutInit ==
    /\ now = 0
    /\ history = <<>>
    /\ lastGet = NoGet
    /\ subject = <<>>
    /\ JobsIdle
    /\ CoordIdle /\ AnswerIdle /\ PlannerIdle /\ RegistryIdle /\ StartIdle /\ CheckerIdle /\ EnrichIdle /\ SimpleIdle /\ DeleteIdle
    /\ putPc = [t \in Threads |-> "set_exact"]
    /\ putRecent = [t \in Threads |-> 0]
    /\ \/ cache = <<>> /\ heap = <<>>
       \/ /\ heap = << <<PriorEntry>> >>
          /\ cache = CacheSet(
                CacheSet(<<>>, now, ExactKey(PriorQuestion), TupleValue(PriorResult),
                         cache_ttl_seconds),
                now, RecentKey, ListRef(1), cache_ttl_seconds)

\* cache.set(exact_key, (solution, visualization), ttl=self.cache_ttl_seconds)
PutSetExact(t) ==
    /\ putPc[t] = "set_exact"
    /\ cache' = CacheSet(cache, now, ExactKey(ThreadQuestion(t)),
                         TupleValue(ThreadResult(t)), cache_ttl_seconds)
    /\ putPc' = [putPc EXCEPT ![t] = "get_recent"]
    /\ UNCHANGED <<now, history, lastGet, putRecent, heap, putFrame>>

\* recent = cache.get("tutor:recent") or []
PutGetRecent(t) ==
    /\ putPc[t] = "get_recent"
    /\ LET g == CacheGet(cache, now, RecentKey)
           stored == g.value.kind = "listref" /\ heap[g.value.val[1]] # <<>>
       IN  /\ cache' = g.cache
           /\ IF stored
              THEN /\ putRecent' = [putRecent EXCEPT ![t] = g.value.val[1]]
                   /\ heap' = heap
              ELSE /\ putRecent' = [putRecent EXCEPT ![t] = Len(heap) + 1]
                   /\ heap' = Append(heap, <<>>)
    /\ putPc' = [putPc EXCEPT ![t] = "append"]
    /\ UNCHANGED <<now, history, lastGet, putFrame>>

\* recent.append({"tokens": tokens, "result": (solution, visualization)})
PutAppend(t) ==
    /\ putPc[t] = "append"
    /\ heap' = [heap EXCEPT ![putRecent[t]] = Append(@, ThreadEntry(t))]
    /\ putPc' = [putPc EXCEPT ![t] = "slice"]
    /\ UNCHANGED <<cacheVars, putRecent, putFrame>>

\* recent = recent[-50:]
PutSlice(t) ==
    /\ putPc[t] = "slice"
    /\ heap' = Append(heap, LastN(heap[putRecent[t]], RecentCap))
    /\ putRecent' = [putRecent EXCEPT ![t] = Len(heap) + 1]
    /\ putPc' = [putPc EXCEPT ![t] = "set_recent"]
    /\ UNCHANGED <<cacheVars, putFrame>>

\* cache.set("tutor:recent", recent, ttl=self.cache_ttl_seconds)
PutSetRecent(t) ==
    /\ putPc[t] = "set_recent"
    /\ cache' = CacheSet(cache, now, RecentKey, ListRef(putRecent[t]),
                         cache_ttl_seconds)
    /\ putPc' = [putPc EXCEPT ![t] = "done"]
    /\ UNCHANGED <<now, history, lastGet, putRecent, heap, putFrame>>

PutNext ==
    \E t \in Threads :
        \/ PutSetExact(t)
        \/ PutGetRecent(t)
        \/ PutAppend(t)
        \/ PutSlice(t)
        \/ PutSetRecent(t)

SpecPut == PutInit /\ [][PutNext]_vars

\* The recency buffer the cache holds, as a list
StoredBuffer ==
    IF RecentKey \in DOMAIN cache /\ cache[RecentKey].value.kind = "listref"
    THEN heap[cache[RecentKey].value.val[1]]
    ELSE <<>>

\* C5: once all concurrent puts have finished, the recency buffer holds an
\* entry for each of them.
C5_NoPutLostUnderConcurrency ==
    (\A t \in Threads : putPc[t] = "done") =>
        \A t \in Threads :
            \E k \in 1..Len(StoredBuffer) : StoredBuffer[k] = ThreadEntry(t)

----------------------------------------------------------------------------
(* Diagram jobs of GenerativeTutorService: submission, pool and polls      *)

\* What the diagram-job actions leave alone, the cache apart
jobFrame == <<now, history, lastGet, subject, putVars, coordVars, answerVars,
              plannerVars, registryVars, startVars, checkerVars, enrichVars, simpleVars, deleteVars>>

\* What the steps of start_diagram_job leave alone beside the job variables
startFrame == <<now, history, lastGet, subject, putVars, coordVars, answerVars,
                plannerVars, registryVars, checkerVars, enrichVars, simpleVars, deleteVars>>

\* The job has left the work queue: a pool thread has picked it up.
PickedUp(job_id) ==
    /\ job_id \in 1..Len(ended)
    /\ \A i \in 1..Len(jobQueue) : jobQueue[i].job_id # job_id

\* start_diagram_job up to its return statement: the record is stored and
\* the task handed to the pool.
StartDiagramJob(question) ==
    /\ Len(ended) < MaxJobs
    /\ LET job_id == Len(ended) + 1
       IN  /\ diagram_jobs' = (job_id :> QueuedRecord(job_id, question)) @@ diagram_jobs
           /\ jobQueue' = Append(jobQueue, [job_id |-> job_id, question |-> question])
           /\ starting' = starting \cup {job_id}
    /\ ended' = Append(ended, "pending")
    /\ UNCHANGED <<enabled, settings, workers, polled, cache, started, startFrame>>

\* A pool thread that runs the head of the work queue and leaves it queued
WorkerStart_NoDequeue(w) ==
    /\ workers[w].pc = "idle"
    /\ jobQueue # <<>>
    /\ LET task == Head(jobQueue)
       IN  /\ workers' = [workers EXCEPT ![w] =
                            [pc |-> "fallback", job_id |-> task.job_id,
                             question |-> task.question, viz |-> NoViz]]
           /\ diagram_jobs' = UpdateDiagramJob(diagram_jobs, task.job_id,
                                [status |-> "running", progress |-> ProgressRunning])
    /\ jobQueue' = jobQueue
    /\ UNCHANGED <<enabled, settings, ended, polled, cache, jobFrame>>

\* A pool thread takes the head of the work queue and begins
\* _run_diagram_job: _update_diagram_job(job_id, status="running", progress=25)
WorkerStart(w) ==
    /\ workers[w].pc = "idle"
    /\ jobQueue # <<>>
    /\ LET task == Head(jobQueue)
       IN  /\ workers' = [workers EXCEPT ![w] =
                            [pc |-> "fallback", job_id |-> task.job_id,
                             question |-> task.question, viz |-> NoViz]]
           /\ diagram_jobs' = UpdateDiagramJob(diagram_jobs, task.job_id,
                                [status |-> "running", progress |-> ProgressRunning])
    /\ jobQueue' = Tail(jobQueue)
    /\ UNCHANGED <<enabled, settings, ended, polled, cache, jobFrame>>

\* viz = self.fallback_visualization(question)
WorkerFallback(w) ==
    /\ workers[w].pc = "fallback"
    /\ \E v \in FallbackVisualization(workers[w].question) :
          workers' = [workers EXCEPT ![w].viz = v,
                                     ![w].pc = IF v = NoViz THEN "answer" ELSE "finish"]
    /\ UNCHANGED <<enabled, settings, diagram_jobs, jobQueue, ended, polled, cache, jobFrame>>

\* f"{question}. Provide a visualization."
ProvideSuffix ==
    <<"."," ","P","r","o","v","i","d","e"," ","a"," ",
      "v","i","s","u","a","l","i","z","a","t","i","o","n",".">>

\* result = self.answer(...); if result: viz = result[1]. An exception ends
\* the task: the pool stores it in the future, which nobody reads.
WorkerAnswer(w) ==
    /\ workers[w].pc = "answer"
    /\ \E o \in Answer(cache, now, enabled, settings,
                       workers[w].question \o ProvideSuffix) :
          /\ cache' = o.cache
          /\ enabled' = o.enabled
          /\ IF o.ret = "raise"
             THEN /\ workers' = [workers EXCEPT ![w] = IdleWorker]
                  /\ ended' = [ended EXCEPT ![workers[w].job_id] = "raised"]
             ELSE /\ workers' = [workers EXCEPT
                        ![w].viz = IF o.ret = "answer" THEN o.value.val[2] ELSE NoViz,
                        ![w].pc = "finish"]
                  /\ UNCHANGED ended
    /\ UNCHANGED <<settings, diagram_jobs, jobQueue, polled, jobFrame>>

\* The updates of the final _update_diagram_job of _run_diagram_job
FinishUpdates_AlwaysCompleted(viz) ==
    [status |-> "completed", progress |-> ProgressDone,
     visualization |-> viz, error |-> NoError]

FinishUpdates(viz) ==
    IF viz # NoViz
    THEN [status |-> "completed", progress |-> ProgressDone,
          visualization |-> viz, error |-> NoError]
    ELSE [status |-> "error", progress |-> ProgressDone, error |-> NoPlanMessage]

\* The end of _run_diagram_job
WorkerFinish(w) ==
    /\ workers[w].pc = "finish"
    /\ diagram_jobs' = UpdateDiagramJob(diagram_jobs, workers[w].job_id,
                                        FinishUpdates(workers[w].viz))
    /\ workers' = [workers EXCEPT ![w] = IdleWorker]
    /\ ended' = [ended EXCEPT ![workers[w].job_id] = "returned"]
    /\ UNCHANGED <<enabled, settings, jobQueue, polled, cache, jobFrame>>

\* A client polls get_diagram_job(job_id) for the id it was given, again
\* and again.
PollDiagramJob(job_id) ==
    /\ job_id \in 1..Len(ended)
    /\ \A i \in 1..Len(polled) : polled[i].job_id = job_id
    /\ polled' = <<[job_id |-> job_id, rec |-> GetDiagramJob(diagram_jobs, job_id),
                    picked |-> PickedUp(job_id)]>>
    /\ UNCHANGED <<enabled, settings, diagram_jobs, jobQueue, workers, ended, cache, jobFrame>>

\* GenerativeTutorService.delete_diagram_job
DeleteDiagramJob(job_id) ==
    /\ job_id \in 1..Len(ended)
    /\ diagram_jobs' = DropKey(diagram_jobs, job_id)
    /\ UNCHANGED <<enabled, settings, jobQueue, workers, ended, polled, cache, jobFrame>>

\* A question with a recipe that also asks for a graph, and one that is no
\* visual topic
QParabola == <<"G","r","a","p","h"," ","a"," ","p","a","r","a","b","o","l","a">>

QLimit == <<"W","h","a","t"," ","i","s"," ","a"," ","l","i","m","i","t">>

JobQuestions == {QParabola, QLimit}

\* The settings the store may hold while the jobs run
JobSettings ==
    {DefaultSettings,
     [DefaultSettings EXCEPT !.fast_mode_enabled = TRUE],
     [DefaultSettings EXCEPT !.local_ai_enabled = FALSE]}

JobsInit ==
    /\ CacheIdle
    /\ subject = <<>>
    /\ PutIdle
    /\ CoordIdle /\ AnswerIdle /\ PlannerIdle /\ RegistryIdle /\ StartIdle /\ CheckerIdle /\ EnrichIdle /\ SimpleIdle /\ DeleteIdle
    /\ enabled = DefaultSettings.local_ai_enabled
    /\ settings \in JobSettings
    /\ diagram_jobs = <<>>
    /\ jobQueue = <<>>
    /\ workers = [w \in Workers |-> IdleWorker]
    /\ ended = <<>>
    /\ polled = <<>>

JobsNext ==
    \/ \E q \in JobQuestions : StartDiagramJob(q)
    \/ \E w \in Workers : WorkerStart(w)
    \/ \E w \in Workers : WorkerFallback(w)
    \/ \E w \in Workers : WorkerAnswer(w)
    \/ \E w \in Workers : WorkerFinish(w)
    \/ \E j \in JobIds : PollDiagramJob(j)
    \/ \E j \in JobIds : DeleteDiagramJob(j)

SpecJobs == JobsInit /\ [][JobsNext]_vars

----------------------------------------------------------------------------
(* Diagram jobs: claims                                                    *)

TerminalStatuses == {"completed", "error"}

StatusChanges ==
    {<<"queued", "running">>, <<"running", "completed">>, <<"running", "error">>}

\* The step leaves the record of job j in place.
JobKept(j) == j \in DOMAIN diagram_jobs /\ j \in DOMAIN diagram_jobs'

\* The step is a poll that was answered from the stored record of job j.
PollFound(j) ==
    /\ polled' # polled
    /\ polled'[1].job_id = j
    /\ polled'[1].rec.status # "not_found"

\* C1: the status of a stored diagram job changes only from queued to
\* running, from running to completed and from running to error; a poll
\* answered from the record before a pool thread has picked the job up
\* reports queued; and once a job is completed or error its record never
\* changes while it is stored, so every later poll that finds it reports
\* what the poll before it reported: the same status, progress, payload
\* and error.
C1_JobStatusTransitions ==
    [][\A j \in JobIds :
          /\ (j \notin DOMAIN diagram_jobs /\ j \in DOMAIN diagram_jobs') =>
                diagram_jobs'[j].status = "queued"
          /\ (JobKept(j) /\ diagram_jobs'[j].status # diagram_jobs[j].status) =>
                <<diagram_jobs[j].status, diagram_jobs'[j].status>> \in StatusChanges
          /\ (JobKept(j) /\ diagram_jobs[j].status \in TerminalStatuses) =>
                diagram_jobs'[j] = diagram_jobs[j]
          /\ PollFound(j) =>
                /\ polled'[1].rec = diagram_jobs[j]
                /\ ~polled'[1].picked => polled'[1].rec.status = "queued"
                /\ (polled # <<>> /\ polled[1].rec.status \in TerminalStatuses) =>
                      polled'[1].rec = polled[1].rec
      ]_vars

\* A poll made before pickup reported queued, for job 2 while job 1, polled
\* by nobody, had already completed.
C1_Witness ==
    /\ polled # <<>>
    /\ ~polled[1].picked
    /\ polled[1].rec.status = "queued"
    /\ \E j \in DOMAIN diagram_jobs : diagram_jobs[j].status = "completed"

\* Each stored record is one of the four shapes.
JobRecordConsistent(r) ==
    /\ r.status \in {"queued", "running", "completed", "error"}
    /\ r.status = "queued" =>
          r.progress = ProgressQueued /\ r.visualization = NoViz /\ r.error = NoError
    /\ r.status = "running" =>
          r.progress = ProgressRunning /\ r.visualization = NoViz /\ r.error = NoError
    /\ r.status = "completed" =>
          r.progress = ProgressDone /\ r.visualization # NoViz /\ r.error = NoError
    /\ r.status = "error" =>
          r.progress = ProgressDone /\ r.error # NoError /\ r.visualization = NoViz

\* C3: every stored diagram-job record is consistent (queued: progress 5, no
\* visualization, no error; running: progress 25, no visualization, no
\* error; completed: progress 100, a payload, no error; error: progress 100,
\* an error text, no visualization), and of two successive polls answered
\* from the record of one job the later never reports a smaller progress.
C3_JobRecordsConsistent ==
    /\ [](\A j \in DOMAIN diagram_jobs : JobRecordConsistent(diagram_jobs[j]))
    /\ [][\A j \in JobIds :
            (PollFound(j) /\ polled # <<>> /\ polled[1].rec.status # "not_found") =>
                polled'[1].rec.progress >= polled[1].rec.progress
         ]_vars

\* A poll has reported progress 100 for a job in error while another job is
\* completed.
C3_Witness ==
    /\ polled # <<>>
    /\ polled[1].rec.status = "error"
    /\ polled[1].rec.progress = ProgressDone
    /\ \E j \in DOMAIN diagram_jobs : diagram_jobs[j].status = "completed"

\* C2: once the task of a job that is still stored has ended, however it
\* ended, the job is completed or error with progress 100, and in error it
\* carries a message.
C2_EndedTaskLeavesJobTerminal ==
    \A j \in 1..Len(ended) :
        (ended[j] # "pending" /\ j \in DOMAIN diagram_jobs) =>
            /\ diagram_jobs[j].status \in TerminalStatuses
            /\ diagram_jobs[j].progress = ProgressDone
            /\ diagram_jobs[j].status = "error" => diagram_jobs[j].error # NoError

----------------------------------------------------------------------------
(* Multi-agent coordinator (backend/app/ai/coordinator.py)                 *)

\* Number of MultiAgentCoordinator.answer calls in a run of the model
MaxRuns == 2

\* The auxiliary agents, in the order answer runs them
AuxAgents ==
    <<"intuition_agent", "examples_agent", "proof_agent", "history_agent",
      "visualization_agent">>

\* AgentMetrics(): the dataclass defaults (run times and dates left out)
NewAgentMetrics == [status |-> "idle", run_count |-> 0, last_error |-> NoError]

\* _AGENT_METRICS.setdefault(agent_id, AgentMetrics())
MetricsOf(m, agent_id) == IF agent_id \in DOMAIN m THEN m[agent_id] ELSE NewAgentMetrics

SetMetrics(m, agent_id, value) ==
    [a \in DOMAIN m \cup {agent_id} |-> IF a = agent_id THEN value ELSE m[a]]

\* agent_registry.record_start
record_start(m, agent_id) ==
    SetMetrics(m, agent_id, [MetricsOf(m, agent_id) EXCEPT !.status = "running"])

\* agent_registry.record_success
record_success(m, agent_id) ==
    SetMetrics(m, agent_id,
        [MetricsOf(m, agent_id) EXCEPT !.status = "ok", !.run_count = @ + 1,
                                       !.last_error = NoError])

\* record_error without the run counted
record_error_NotCounted(m, agent_id, error) ==
    SetMetrics(m, agent_id,
        [MetricsOf(m, agent_id) EXCEPT !.status = "error", !.last_error = error])

\* agent_registry.record_error
record_error(m, agent_id, error) ==
    SetMetrics(m, agent_id,
        [MetricsOf(m, agent_id) EXCEPT !.status = "error", !.run_count = @ + 1,
                                       !.last_error = error])

\* "\n\n"
BlankLine == <<"\n", "\n">>

\* Solutions of the planner's plan: a text, and the text with a blank after it
BaseSolutions == {<<"s">>, <<"s", " ">>}

\* The fixed heading of an agent's section, as one character of the text
Heading(agent_id) == <<"#" \o agent_id>>

\* The stripped, non-empty text an agent produced, as one character
OutputText(agent_id) == <<"out:" \o agent_id>>

\* heading + "\n" + output
Section(agent_id) == Heading(agent_id) \o <<"\n">> \o OutputText(agent_id)

\* What the diagram jobs and the caches do not see of a coordinator run
coordFrame == <<cacheVars, subject, putVars, jobVars, answerVars, plannerVars,
                registryVars, startVars, checkerVars, enrichVars, simpleVars, deleteVars>>

\* MultiAgentCoordinator.answer up to the call of the planner: None at once
\* when the engine is not available, else _run_planner records the start.
CoAnswer(available) ==
    /\ coPc \in {"idle", "done"}
    /\ coRuns < MaxRuns
    /\ coRuns' = coRuns + 1
    /\ coNext' = 0
    /\ coPlanner' = "pending"
    /\ coOutputs' = {}
    /\ coBase' = <<>>
    /\ coSolution' = <<>>
    /\ IF available
       THEN /\ coPc' = "planner"
            /\ coRet' = "pending"
            /\ coInvoked' = <<"planner_agent">>
            /\ metrics' = record_start(metrics, "planner_agent")
       ELSE /\ coPc' = "done"
            /\ coRet' = "none"
            /\ coInvoked' = <<>>
            /\ metrics' = metrics
    /\ UNCHANGED coordFrame

\* A planner step after which answer goes on to the agents whatever the
\* planner yielded
CoPlannerEnd_GoesOn(outcome) ==
    /\ coPc = "planner"
    /\ coPlanner' = outcome
    /\ metrics' =
          IF outcome = "plan" THEN record_success(metrics, "planner_agent")
          ELSE record_error(metrics, "planner_agent",
                            IF outcome = "none" THEN "Planner returned None"
                            ELSE "exception")
    /\ coPc' = "agent"
    /\ coNext' = 1
    /\ coRet' = coRet
    /\ IF outcome = "plan"
       THEN \E base \in BaseSolutions : coBase' = base /\ coSolution' = base
       ELSE coBase' = <<>> /\ coSolution' = <<>>
    /\ UNCHANGED <<coOutputs, coInvoked, coRuns, coordFrame>>

\* The planner returns a plan, returns None or raises: the rest of
\* _run_planner, and "if not plan: return None" of answer
CoPlannerEnd(outcome) ==
    /\ coPc = "planner"
    /\ coPlanner' = outcome
    /\ metrics' =
          IF outcome = "plan" THEN record_success(metrics, "planner_agent")
          ELSE record_error(metrics, "planner_agent",
                            IF outcome = "none" THEN "Planner returned None"
                            ELSE "exception")
    /\ IF outcome = "plan"
       THEN /\ coPc' = "agent"
            /\ coNext' = 1
            /\ coRet' = coRet
            /\ \E base \in BaseSolutions : coBase' = base /\ coSolution' = base
       ELSE /\ coPc' = "done"
            /\ coNext' = coNext
            /\ coRet' = "none"
            /\ coBase' = <<>>
            /\ coSolution' = <<>>
    /\ UNCHANGED <<coOutputs, coInvoked, coRuns, coordFrame>>

\* _run_agent of the next auxiliary agent, up to engine.generate
CoAgentStart ==
    /\ coPc = "agent"
    /\ metrics' = record_start(metrics, AuxAgents[coNext])
    /\ coInvoked' = Append(coInvoked, AuxAgents[coNext])
    /\ coPc' = "agent_running"
    /\ UNCHANGED <<coNext, coPlanner, coOutputs, coRet, coBase, coSolution, coRuns,
                 coordFrame>>

\* What _run_agent does with what engine.generate did: text, nothing or an
\* exception
AgentOutcome(m, agent_id, outcome) ==
    IF outcome = "output" THEN record_success(m, agent_id)
    ELSE record_error(m, agent_id,
                      IF outcome = "empty" THEN "Empty output" ELSE "exception")

\* An agent step whose exception ends the run without a plan
CoAgentEnd_RaiseAborts(outcome) ==
    /\ coPc = "agent_running"
    /\ metrics' = AgentOutcome(metrics, AuxAgents[coNext], outcome)
    /\ coOutputs' = IF outcome = "output" THEN coOutputs \cup {AuxAgents[coNext]}
                    ELSE coOutputs
    /\ IF outcome = "raise"
       THEN coPc' = "done" /\ coNext' = coNext /\ coRet' = "none"
       ELSE /\ coRet' = coRet
            /\ IF coNext = Len(AuxAgents)
               THEN coPc' = "web" /\ coNext' = coNext
               ELSE coPc' = "agent" /\ coNext' = coNext + 1
    /\ UNCHANGED <<coPlanner, coInvoked, coBase, coSolution, coRuns, coordFrame>>

\* engine.generate of the auxiliary agent ends; answer goes on to the next
\* agent, or to the web research after the last one
CoAgentEnd(outcome) ==
    /\ coPc = "agent_running"
    /\ metrics' = AgentOutcome(metrics, AuxAgents[coNext], outcome)
    /\ coOutputs' = IF outcome = "output" THEN coOutputs \cup {AuxAgents[coNext]}
                    ELSE coOutputs
    /\ IF coNext = Len(AuxAgents)
       THEN coPc' = "web" /\ coNext' = coNext
       ELSE coPc' = "agent" /\ coNext' = coNext + 1
    /\ UNCHANGED <<coPlanner, coInvoked, coRet, coBase, coSolution, coRuns,
                 coordFrame>>

\* _run_web_research_agent up to engine.generate: no agent run unless
\* should_enrich holds and the retrieval found snippets
CoWebResearch(enrich, found) ==
    /\ coPc = "web"
    /\ IF enrich /\ found
       THEN /\ metrics' = record_start(metrics, "web_research_agent")
            /\ coInvoked' = Append(coInvoked, "web_research_agent")
            /\ coPc' = "web_running"
       ELSE /\ coPc' = "merge"
            /\ UNCHANGED <<metrics, coInvoked>>
    /\ UNCHANGED <<coNext, coPlanner, coOutputs, coRet, coBase, coSolution, coRuns,
                 coordFrame>>

\* engine.generate of the web-research agent ends
CoWebEnd(outcome) ==
    /\ coPc = "web_running"
    /\ metrics' = AgentOutcome(metrics, "web_research_agent", outcome)
    /\ coOutputs' = IF outcome = "output" THEN coOutputs \cup {"web_research_agent"}
                    ELSE coOutputs
    /\ coPc' = "merge"
    /\ UNCHANGED <<coNext, coPlanner, coInvoked, coRet, coBase, coSolution, coRuns,
                 coordFrame>>

\* "\n\n".join(parts)
RECURSIVE JoinBlank(_)
JoinBlank(parts) ==
    IF parts = <<>> THEN <<>>
    ELSE IF Len(parts) = 1 THEN parts[1]
    ELSE parts[1] \o BlankLine \o JoinBlank(Tail(parts))

\* additions.append(heading + "\n" + output) when the agent's output is held
AppendSection(additions, outputs, agent_id) ==
    IF agent_id \in outputs THEN Append(additions, Section(agent_id)) ELSE additions

\* A list of additions that begins with the web-research section
Additions_WebFirst(outputs) ==
    LET a0 == AppendSection(<<>>, outputs, "web_research_agent")
        a1 == AppendSection(a0, outputs, "intuition_agent")
        a2 == AppendSection(a1, outputs, "examples_agent")
        a3 == AppendSection(a2, outputs, "proof_agent")
        a4 == AppendSection(a3, outputs, "history_agent")
    IN  AppendSection(a4, outputs, "visualization_agent")

\* The list additions that answer builds from the outputs it holds
Additions(outputs) ==
    LET a1 == AppendSection(<<>>, outputs, "intuition_agent")
        a2 == AppendSection(a1, outputs, "examples_agent")
        a3 == AppendSection(a2, outputs, "proof_agent")
        a4 == AppendSection(a3, outputs, "history_agent")
        a5 == AppendSection(a4, outputs, "visualization_agent")
    IN  AppendSection(a5, outputs, "web_research_agent")

\* plan.solution after "if additions: plan.solution = ..."
MergedSolution(solution, additions) ==
    IF additions = <<>> THEN solution
    ELSE RStrip(solution) \o BlankLine \o JoinBlank(additions)

\* The sections are appended and the plan returned
CoReturn ==
    /\ coPc = "merge"
    /\ coRet' = "plan"
    /\ coSolution' = MergedSolution(coSolution, Additions(coOutputs))
    /\ coPc' = "done"
    /\ UNCHANGED <<coNext, coPlanner, coOutputs, coInvoked, coBase, coRuns, metrics,
                   coordFrame>>

AgentOutcomes == {"output", "empty", "raise"}

CoordInit ==
    /\ CacheIdle /\ subject = <<>> /\ PutIdle /\ JobsIdle
    /\ CoordIdle /\ AnswerIdle /\ PlannerIdle /\ RegistryIdle /\ StartIdle /\ CheckerIdle /\ EnrichIdle /\ SimpleIdle /\ DeleteIdle

CoordNext ==
    \/ \E available \in BOOLEAN : CoAnswer(available)
    \/ \E outcome \in {"plan", "none", "raise"} : CoPlannerEnd(outcome)
    \/ CoAgentStart
    \/ \E outcome \in AgentOutcomes : CoAgentEnd(outcome)
    \/ \E enrich \in BOOLEAN, found \in BOOLEAN : CoWebResearch(enrich, found)
    \/ \E outcome \in AgentOutcomes : CoWebEnd(outcome)
    \/ CoReturn

SpecCoord == CoordInit /\ [][CoordNext]_vars

\* C10: when the planner step of a coordinator run yielded no plan (None or
\* an exception), the run has ended returning None, it holds no agent
\* output, and the planner is the only agent it invoked.
C10_NoPlanReturnsNone ==
    coPlanner \in {"none", "raise"} =>
        /\ coPc = "done"
        /\ coRet = "none"
        /\ coOutputs = {}
        /\ coInvoked = <<"planner_agent">>

\* A run whose planner raised has returned None.
C10_Witness ==
    /\ coPlanner = "raise"
    /\ coRet = "none"
    /\ metrics["planner_agent"].status = "error"

----------------------------------------------------------------------------
(* Multi-agent coordinator: claims about the agents and the merge          *)

\* The agent was invoked in the run and its invocation recorded success.
ProducedOutput(agent_id) ==
    /\ \E k \in 1..Len(coInvoked) : coInvoked[k] = agent_id
    /\ metrics[agent_id].status = "ok"

\* The run's planner yielded a plan and the run has ended.
RunWithPlanEnded == coPlanner = "plan" /\ coPc = "done"

SectionAgents ==
    {AuxAgents[i] : i \in 1..Len(AuxAgents)} \cup {"web_research_agent"}

\* C11: whichever auxiliary agents raise or return nothing, a run whose
\* planner yielded a plan invokes every auxiliary agent and returns the
\* plan; the returned solution begins with the base solution (its trailing
\* blanks dropped before the first section) and holds the section of an
\* agent exactly when that agent produced output; with no output at all it
\* is the base solution unchanged.
C11_AgentFailureIsolated ==
    RunWithPlanEnded =>
        /\ coRet = "plan"
        /\ \A i \in 1..Len(AuxAgents) :
              \E k \in 1..Len(coInvoked) : coInvoked[k] = AuxAgents[i]
        /\ \A a \in SectionAgents :
              Contains(coSolution, Section(a)) <=> ProducedOutput(a)
        /\ SubSeq(coSolution, 1, Len(RStrip(coBase))) = RStrip(coBase)
        /\ (\A a \in SectionAgents : ~ProducedOutput(a)) => coSolution = coBase

\* A run returned its plan although one auxiliary agent raised and another
\* returned nothing, with the sections of the others.
C11_Witness ==
    /\ RunWithPlanEnded
    /\ coRet = "plan"
    /\ metrics["intuition_agent"].last_error = "exception"
    /\ metrics["proof_agent"].last_error = "Empty output"
    /\ ProducedOutput("examples_agent")
    /\ ProducedOutput("history_agent")

\* The order in which answer runs the agents
AgentOrder == <<"planner_agent">> \o AuxAgents \o <<"web_research_agent">>

\* Position of an agent in AgentOrder
OrderIndex(agent_id) == CHOOSE i \in 1..Len(AgentOrder) : AgentOrder[i] = agent_id

\* Where part first occurs in text (0 when it does not)
IndexOf(text, part) ==
    IF Contains(text, part)
    THEN CHOOSE i \in 1..Len(text) :
            /\ SubSeq(text, i, i + Len(part) - 1) = part
            /\ \A k \in 1..(i - 1) : SubSeq(text, k, k + Len(part) - 1) # part
    ELSE 0

\* part stands in text after a blank line and before a blank line or the end
SetOffByBlankLines(text, part) ==
    LET i == IndexOf(text, part)
        after == i + Len(part)
    IN  /\ i > Len(BlankLine)
        /\ SubSeq(text, i - Len(BlankLine), i - 1) = BlankLine
        /\ \/ after = Len(text) + 1
           \/ SubSeq(text, after, after + Len(BlankLine) - 1) = BlankLine

\* C12: in a coordinator run the agents are invoked one at a time in the
\* order planner, intuition, examples, proof, history, visualization and
\* the web research last; in the returned solution the sections stand in
\* that order, each with its heading, set off by blank lines, whichever
\* agents produced output.
C12_FixedAgentOrder ==
    /\ Len(coInvoked) <= Len(AgentOrder)
    /\ \A k \in 1..Len(coInvoked) : coInvoked[k] = AgentOrder[k]
    /\ \A a \in DOMAIN metrics :
          metrics[a].status = "running" =>
              coInvoked # <<>> /\ a = coInvoked[Len(coInvoked)]
    /\ RunWithPlanEnded =>
          \A a \in SectionAgents :
              Contains(coSolution, Section(a)) =>
                  /\ SetOffByBlankLines(coSolution, Section(a))
                  /\ \A b \in SectionAgents :
                        (Contains(coSolution, Section(b))
                            /\ OrderIndex(a) < OrderIndex(b)) =>
                        IndexOf(coSolution, Section(a)) < IndexOf(coSolution, Section(b))

\* A run invoked all seven agents and returned the sections of the
\* visualization and web-research agents only.
C12_Witness ==
    /\ RunWithPlanEnded
    /\ Len(coInvoked) = Len(AgentOrder)
    /\ coOutputs = {"visualization_agent", "web_research_agent"}
    /\ coRet = "plan"

----------------------------------------------------------------------------
(* TutorPlanner.plan (backend/app/ai/planner.py) and the generation port   *)
(* (backend/app/ai/engine.py)                                              *)

\* A text of the language model is told by its lexical shape: kind is
\*   "prose"        no JSON and none of the markers the loose parser knows
\*   "broken"       braces around text that is not JSON, no markers
\*   "loose"        not JSON, with markers of the loose parser
\*   "json_object"  a JSON object
\*   "json_other"   a JSON value that is not an object (array, number)
\* wrapped tells whether prose surrounds the JSON value; solution, needs,
\* visualization and code tell what the object or the markers carry.
\* engine.generate strips the text and yields None for an empty one, so a
\* text is non-empty and text.strip() is the text.
VisualizationFields ==
    {"absent", "plotly", "manim", "svg", "badtype", "notype", "text"}

PlainText(kind, wrapped) ==
    [kind |-> kind, wrapped |-> wrapped, solution |-> "absent", needs |-> "absent",
     visualization |-> "absent", code |-> FALSE]

RawTexts ==
    {PlainText("prose", FALSE), PlainText("broken", FALSE),
     PlainText("json_other", FALSE), PlainText("json_other", TRUE)}
    \cup [kind : {"json_object"}, wrapped : BOOLEAN, solution : {"absent", "text"},
          needs : {"absent", "true", "false"},
          visualization : VisualizationFields, code : BOOLEAN]
    \cup {r \in [kind : {"loose"}, wrapped : {FALSE}, solution : {"absent", "text"},
                 needs : {"absent", "true", "false"},
                 visualization : {"absent", "plotly", "manim"}, code : BOOLEAN] :
            r.solution = "text" \/ r.visualization # "absent" \/ r.code}

\* extract_json_block: whether it returns a JSON text. The whole text is
\* tried first; otherwise the span from the first "{" to the last "}" is
\* tried, which finds an object in prose and nothing in prose around an
\* array or a number.
ExtractJsonBlock(raw) ==
    \/ raw.kind = "json_object"
    \/ raw.kind = "json_other" /\ ~raw.wrapped

\* TutorPlanner._parse_loose_payload: whether the markers yield a payload
ParseLoosePayload(raw) ==
    /\ raw.kind = "loose"
    /\ raw.solution = "text" \/ raw.visualization \in {"plotly", "manim"} \/ raw.code

\* The visualization of a TutorPlan built from the fields of a text
PlanVisualizationOf(raw) ==
    IF raw.visualization = "absent" THEN NoPlanViz
    ELSE [type |-> raw.visualization, code |-> IF raw.code THEN "code" ELSE EmptyCode]

\* needs_visualization as given, and bool(visualization) when it is not
NeedsVisualization(raw) ==
    IF raw.needs = "absent" THEN raw.visualization # "absent" ELSE raw.needs = "true"

\* Pydantic validation of TutorPlan(**payload): the visualization has to be
\* absent or an object whose type is svg, plotly or manim (the goal is
\* filled in by _normalize_payload when the type is there)
ValidTutorPlan(raw) ==
    raw.visualization \in {"absent", "svg", "plotly", "manim"}

\* TutorPlan(solution=raw, needs_visualization=False, visualization=None);
\* the solution "raw" is the text of the language model, verbatim
DegradedPlan ==
    [solution |-> "raw", needs_visualization |-> FALSE, visualization |-> NoPlanViz]

NoTutorPlan ==
    [solution |-> "none", needs_visualization |-> FALSE, visualization |-> NoPlanViz]

\* The plan built from the payload of a JSON object after
\* _normalize_payload: the solution of the payload, "" when it has none
PlanOfObject(raw) ==
    [solution |-> IF raw.solution = "text" THEN "payload" ELSE "empty",
     needs_visualization |-> NeedsVisualization(raw),
     visualization |-> PlanVisualizationOf(raw)]

\* The plan built from a loose payload: the numbered steps found, or the
\* text itself; a visualization only when a type marker was found
PlanOfLoose(raw) ==
    [solution |-> IF raw.solution = "text" THEN "steps" ELSE "raw",
     needs_visualization |-> NeedsVisualization(raw),
     visualization |-> PlanVisualizationOf(raw)]

\* What a generation call yields: a text, no text (None), or an exception
\* (the HTTP call catches URLError only)
NoText == PlainText("none", FALSE)

GenerationRaised == PlainText("raised", FALSE)

Generations == RawTexts \cup {NoText, GenerationRaised}

\* generate without the is_available probe
Generate_NoProbe(available, generation) ==
    [ret |-> generation, called |-> TRUE]

\* LocalLLMEngine.generate when the engine is available or not and the
\* provider call yields generation: what it returns and whether the
\* provider was called
Generate(available, generation) ==
    IF ~available THEN [ret |-> NoText, called |-> FALSE]
    ELSE [ret |-> generation, called |-> TRUE]

\* The parsing half of TutorPlanner.plan for a non-empty text: a JSON text
\* that is not an object (no .get) or does not validate is caught by the
\* try block, which returns None
ParsePlan(raw) ==
    IF ~ExtractJsonBlock(raw)
    THEN IF ParseLoosePayload(raw)
         THEN [ret |-> "plan", plan |-> PlanOfLoose(raw)]
         ELSE [ret |-> "plan", plan |-> DegradedPlan]
    ELSE IF raw.kind = "json_object" /\ ValidTutorPlan(raw)
         THEN [ret |-> "plan", plan |-> PlanOfObject(raw)]
         ELSE [ret |-> "none", plan |-> NoTutorPlan]

\* TutorPlanner.plan: what it returns, the text it got and whether it made
\* a generation call
PlannerPlan(available, generation) ==
    IF ~available
    THEN [ret |-> "none", plan |-> NoTutorPlan, raw |-> NoText, called |-> FALSE]
    ELSE LET g == Generate(available, generation)
         IN  IF g.ret = GenerationRaised
             THEN [ret |-> "raise", plan |-> NoTutorPlan, raw |-> g.ret, called |-> g.called]
             ELSE IF g.ret = NoText
             THEN [ret |-> "none", plan |-> NoTutorPlan, raw |-> g.ret, called |-> g.called]
             ELSE [ret |-> ParsePlan(g.ret).ret, plan |-> ParsePlan(g.ret).plan,
                   raw |-> g.ret, called |-> g.called]

plannerFrame == <<cacheVars, subject, putVars, jobVars, coordVars, answerVars,
                  registryVars, startVars, checkerVars, enrichVars, simpleVars, deleteVars>>

\* One call of TutorPlanner.plan
PlanCall(available, generation) ==
    /\ ~available => generation = NoText
    /\ lastPlan' = <<[available |-> available] @@ PlannerPlan(available, generation)>>
    /\ UNCHANGED plannerFrame

PlannerInit ==
    /\ CacheIdle
    /\ subject = <<>>
    /\ PutIdle
    /\ JobsIdle
    /\ CoordIdle /\ RegistryIdle /\ StartIdle /\ CheckerIdle /\ EnrichIdle /\ SimpleIdle /\ DeleteIdle
    /\ AnswerIdle
    /\ PlannerIdle

PlannerNext == \E available \in BOOLEAN, generation \in Generations :
                  PlanCall(available, generation)

SpecPlanner == PlannerInit /\ [][PlannerNext]_vars

\* The text parses and validates as a structured plan
StructuredPlan(raw) ==
    \/ raw.kind = "json_object" /\ ValidTutorPlan(raw)
    \/ ParseLoosePayload(raw)

\* C14: whenever the generation call returned a non-empty text,
\* TutorPlanner.plan returns a plan (not None, no exception), and when the
\* text does not parse or validate as a structured plan, a valid JSON text
\* that does not fit the schema included, the plan is the degraded one: the
\* text verbatim as solution, no visualization.
C14_GenerationNeverWasted ==
    \A i \in 1..Len(lastPlan) :
        LET a == lastPlan[i]
        IN  a.raw \in RawTexts
            => /\ a.ret = "plan"
               /\ ~StructuredPlan(a.raw) => a.plan = DegradedPlan

----------------------------------------------------------------------------
(* GenerativeTutorService.answer, one call with its outside events named   *)

\* How a run of generated code ends
ExecOutcomes == {"ok", "fail", "raise"}

\* _execute_visualization_plan when the run of the code ends as x: plotly
\* runs turn every failure into None, manim runs let an exception out
ExecutePlanTraced(type, code, payload, x) ==
    IF type \notin {"plotly", "manim"} \/ code = EmptyCode THEN NoViz
    ELSE IF x = "ok" THEN payload
    ELSE IF x = "raise" /\ type = "manim" THEN Raised
    ELSE NoViz

\* The guarded use of the deterministic planner when the run of the recipe
\* ends as rec: the payload, and whether the recipe was executed
FallbackTraced(question, rec) ==
    IF LooksVisual(question) /\ VisualPlan(question) # NoRecipe
    THEN [payload |-> ExecutePlanTraced("plotly", "code", VisualPlan(question), rec),
          recipeRan |-> TRUE]
    ELSE [payload |-> NoViz, recipeRan |-> FALSE]

\* GenerativeTutorService._execute_visualization when the run of the plan's
\* code ends as own and the run of the recipe as rec: the payload returned
\* (Raised for an exception), whether the plan's code was handed to the
\* executor with a supported type and code, how that ended, and whether the
\* recipe was executed
ExecuteVisualizationTraced(plan, question, own, rec) ==
    LET fb == FallbackTraced(question, rec)
        viz == plan.visualization
    IN  IF ~plan.needs_visualization \/ viz = NoPlanViz
        THEN [payload |-> fb.payload, ownRan |-> FALSE, recipeRan |-> fb.recipeRan]
        ELSE IF viz.type \notin {"plotly", "manim"}
        THEN [payload |-> NoViz, ownRan |-> FALSE, recipeRan |-> FALSE]
        ELSE
        LET v == ExecutePlanTraced(viz.type, viz.code, GeneratedPayload(viz.type), own)
        IN  IF v # NoViz
            THEN [payload |-> v, ownRan |-> viz.code # EmptyCode, recipeRan |-> FALSE]
            ELSE [payload |-> fb.payload, ownRan |-> viz.code # EmptyCode,
                  recipeRan |-> fb.recipeRan]

\* What a call that ended before the generation step reports
EarlyReturn(ret, value, c, en, lookup) ==
    [ret |-> ret, value |-> value, cache |-> c, enabled |-> en, lookup |-> lookup,
     called |-> FALSE, planned |-> FALSE, vizTried |-> FALSE,
     ownRan |-> FALSE, recipeRan |-> FALSE, payload |-> NoViz, wrote |-> FALSE]

\* GenerativeTutorService.answer at time t with self.enabled = en, the
\* settings store holding st and the engine available or not, when the
\* generation ends as o, the run of the plan's code as own and the run of
\* the recipe as rec. Beyond what Answer tells, the result names what the
\* call did: lookup (how _get_cached_answer ended: "hit", "miss", "raise",
\* or "skipped" when it was not called), called (a generation call was
\* made), planned (a plan was obtained), vizTried (_execute_visualization
\* was called), ownRan, recipeRan, payload, wrote (_store_cached_answer was
\* called).
AnswerTraced(c, t, en, st, question, available, o, own, rec) ==
    IF ~en THEN EarlyReturn("none", None, c, en, "skipped")
    ELSE
    LET g == GetCachedAnswer(c, t, question)
        e == EffectiveSettings(st)
    IN  IF g.outcome = "raise" THEN EarlyReturn("raise", None, g.cache, en, "raise")
        ELSE IF g.outcome = "hit" THEN EarlyReturn("answer", g.value, g.cache, en, "hit")
        ELSE IF ~e.local_ai_enabled THEN EarlyReturn("none", None, g.cache, FALSE, "miss")
        ELSE IF ~available THEN EarlyReturn("none", None, g.cache, TRUE, "miss")
        ELSE IF o.kind # "plan"
        THEN [EarlyReturn(o.kind, None, g.cache, TRUE, "miss") EXCEPT !.called = TRUE]
        ELSE
        LET solution == IF e.fast_mode_enabled THEN ApplyFastMode(o.plan.solution)
                        ELSE o.plan.solution
            x == ExecuteVisualizationTraced(o.plan, question, own, rec)
            s == StoreCachedAnswer(g.cache, t, question, solution, x.payload)
            did == [EarlyReturn("raise", None, g.cache, TRUE, "miss") EXCEPT
                        !.called = TRUE, !.planned = TRUE, !.vizTried = TRUE,
                        !.ownRan = x.ownRan, !.recipeRan = x.recipeRan,
                        !.payload = x.payload]
        IN  IF x.payload = Raised THEN did
            ELSE IF s.raised THEN [did EXCEPT !.cache = s.cache, !.wrote = TRUE]
            ELSE [did EXCEPT !.ret = "answer",
                             !.value = TupleValue(<<solution, x.payload>>),
                             !.cache = s.cache, !.wrote = TRUE]

----------------------------------------------------------------------------
(* GenerativeTutorService.answer, call after call                           *)

\* Number of calls of answer and of the generation side in a run of the model
MaxAnswers == 2

\* A question that holds a token of VISUAL_TOPIC_TOKENS and a keyword of the
\* deterministic planner
QTopic == <<"p","a","r","a","b","o","l","a">>

\* A question the deterministic planner has a recipe for ("cos(" is in its
\* trig group) that neither asks for a visualization nor holds a token of
\* VISUAL_TOPIC_TOKENS
QCos == <<"c","o","s","(","x",")">>

\* A question the deterministic planner has no recipe for
QPi == <<"p","i">>

AnswerQuestions == {QTopic, QCos, QPi}

answerFrame == <<now, history, lastGet, subject, putVars, diagram_jobs, jobQueue,
                 workers, ended, polled, coordVars, plannerVars, registryVars, startVars, checkerVars, enrichVars, simpleVars, deleteVars>>

\* The plan's visualization is handed to an executor that runs its code
OwnExecutable(plan) ==
    /\ plan.needs_visualization
    /\ plan.visualization.type \in {"plotly", "manim"}
    /\ plan.visualization.code # EmptyCode

\* One call of GenerativeTutorService.answer, from entry to return or
\* exception; lastAnswer keeps the inputs and what the call did. An outside
\* event the call does not get to is taken at its first value: the
\* generation of an unavailable engine, the run of code that is not run.
AnswerCall(question, available, o, own, rec) ==
    /\ answers < MaxAnswers
    /\ o \in GenerationOutcomes(EffectiveSettings(settings))
    /\ ~available => o.kind = "none"
    /\ (o.kind # "plan" \/ ~OwnExecutable(o.plan)) => own = "ok"
    /\ o.kind # "plan" => rec = "ok"
    /\ \E r \in {AnswerTraced(cache, now, enabled, settings, question,
                              available, o, own, rec)} :
           /\ r.called \/ o.kind = "none"
           /\ r.recipeRan \/ rec = "ok"
           /\ cache' = r.cache
           /\ enabled' = r.enabled
           /\ lastAnswer' =
                <<[op |-> "answer", question |-> question, available |-> available,
                   was_enabled |-> enabled, plan |-> o.plan, own |-> own,
                   rec |-> rec, ret |-> r.ret, value |-> r.value,
                   lookup |-> r.lookup,
                   called |-> r.called, planned |-> r.planned,
                   vizTried |-> r.vizTried, ownRan |-> r.ownRan,
                   recipeRan |-> r.recipeRan, payload |-> r.payload,
                   wrote |-> r.wrote]>>
    /\ answers' = answers + 1
    /\ UNCHANGED <<settings, answerFrame>>

\* The texts a generation call made on its own yields in this scenario
PortGenerations == {NoText, GenerationRaised, PlainText("prose", FALSE)}

\* MultiAgentCoordinator.answer seen from its caller: None with nothing
\* called when the engine is unavailable, else the plan of the planner step
\* (whose exception _run_planner turns into None)
CoordinatorAnswer(available, generation) ==
    IF ~available THEN [ret |-> "none", called |-> FALSE]
    ELSE LET p == PlannerPlan(available, generation)
         IN  [ret |-> IF p.ret = "raise" THEN "none" ELSE p.ret, called |-> p.called]

\* What a call of one of the three operations of the generation side
\* returns ("text" for a text, "plan" for a plan) and whether the provider
\* was called
PortResult(op, available, generation) ==
    IF op = "generate"
    THEN LET g == Generate(available, generation)
         IN  [ret |-> IF g.ret = NoText THEN "none"
                      ELSE IF g.ret = GenerationRaised THEN "raise" ELSE "text",
              called |-> g.called]
    ELSE IF op = "plan"
    THEN [ret |-> PlannerPlan(available, generation).ret,
          called |-> PlannerPlan(available, generation).called]
    ELSE CoordinatorAnswer(available, generation)

\* A call of engine.generate, TutorPlanner.plan or
\* MultiAgentCoordinator.answer by itself; lastAnswer keeps what it did
PortCall(op, available, generation) ==
    /\ answers < MaxAnswers
    /\ ~available => generation = NoText
    /\ lastAnswer' =
          <<[op |-> op, question |-> <<>>, available |-> available,
             was_enabled |-> enabled, plan |-> NoPlan, own |-> "ok", rec |-> "ok",
             ret |-> PortResult(op, available, generation).ret, value |-> None,
             lookup |-> "skipped",
             called |-> PortResult(op, available, generation).called,
             planned |-> PortResult(op, available, generation).ret = "plan",
             vizTried |-> FALSE, ownRan |-> FALSE, recipeRan |-> FALSE,
             payload |-> NoViz, wrote |-> FALSE]>>
    /\ answers' = answers + 1
    /\ UNCHANGED <<cache, enabled, settings, answerFrame>>

\* SettingsStore.update between two calls
UpdateSettings(st) ==
    /\ settings # st
    /\ settings' = st
    /\ UNCHANGED <<cache, enabled, answerVars, answerFrame>>

AnswerInit ==
    /\ CacheIdle
    /\ subject = <<>>
    /\ PutIdle
    /\ JobsIdle
    /\ CoordIdle /\ PlannerIdle /\ RegistryIdle /\ StartIdle /\ CheckerIdle /\ EnrichIdle /\ SimpleIdle /\ DeleteIdle
    /\ AnswerIdle

AnswerNext ==
    \/ \E question \in AnswerQuestions, available \in BOOLEAN,
          o \in GenerationOutcomes(DefaultSettings)
               \cup GenerationOutcomes([DefaultSettings EXCEPT !.fast_mode_enabled = TRUE]),
          own \in ExecOutcomes, rec \in ExecOutcomes :
            AnswerCall(question, available, o, own, rec)
    \/ \E op \in {"generate", "plan", "coordinator"}, available \in BOOLEAN,
          generation \in PortGenerations :
            PortCall(op, available, generation)
    \/ \E st \in JobSettings : UpdateSettings(st)

SpecAnswer == AnswerInit /\ [][AnswerNext]_vars

\* The plan of the call carries no visualization of its own that ran to a
\* payload: none asked for or none given, a type other than plotly and
\* manim, empty code, or a run that did not succeed
OwnVisualizationUnusable(a) ==
    \/ ~a.plan.needs_visualization
    \/ a.plan.visualization = NoPlanViz
    \/ a.plan.visualization.type \notin {"plotly", "manim"}
    \/ a.plan.visualization.code = EmptyCode
    \/ a.own # "ok"

\* C13: for a question the deterministic planner has a recipe for, a call
\* of answer that obtained a plan whose own visualization is absent, not
\* executable (empty code or unsupported type) or failed to run executes the
\* recipe, and its payload is the recipe's payload, None only if the run of
\* the recipe failed.
C13_FallbackChainDeterminism ==
    \A i \in 1..Len(lastAnswer) :
        LET a == lastAnswer[i]
        IN  (a.op = "answer" /\ a.planned /\ VisualPlan(a.question) # NoRecipe
                       /\ OwnVisualizationUnusable(a))
            => /\ a.recipeRan
               /\ a.payload = IF a.rec = "ok" THEN VisualPlan(a.question) ELSE NoViz

\* C15: a call of answer returns None only when the service is disabled or
\* when it found no cached result and obtained no plan; a call that obtained
\* a plan returns (solution, visualization-or-None), whether the runs of the
\* plan's visualization and of the recipe succeed, fail or time out.
C15_VisualizationFailureKeepsAnswer ==
    \A i \in 1..Len(lastAnswer) :
        LET a == lastAnswer[i]
        IN  /\ (a.op = "answer" /\ a.ret = "none") =>
                \/ ~a.was_enabled
                \/ ~enabled
                \/ a.lookup # "hit" /\ ~a.planned
            /\ (a.op = "answer" /\ a.planned) =>
                /\ a.ret = "answer"
                /\ a.payload # Raised
                /\ \E solution \in {"long", "trimmed"} :
                      a.value = TupleValue(<<solution, a.payload>>)

\* The call lastAnswer tells of was made in this step
CallMade == answers' # answers

\* C18: with is_available() false, engine.generate, TutorPlanner.plan and
\* MultiAgentCoordinator.answer return None and make no generation call, and
\* a call of answer that misses the cache returns None, makes no generation
\* call, executes no visualization and leaves the cache as it is.
C18_UnavailableShortCircuits ==
    /\ [](\A i \in 1..Len(lastAnswer) :
            LET a == lastAnswer[i]
            IN  ~a.available =>
                  /\ a.op \in {"generate", "plan", "coordinator"} =>
                        a.ret = "none" /\ ~a.called
                  /\ (a.op = "answer" /\ a.lookup = "miss") =>
                        /\ a.ret = "none"
                        /\ ~a.called /\ ~a.planned
                        /\ ~a.vizTried /\ ~a.ownRan /\ ~a.recipeRan
                        /\ ~a.wrote)
    /\ [][(/\ CallMade
           /\ lastAnswer'[1].op = "answer"
           /\ ~lastAnswer'[1].available
           /\ lastAnswer'[1].lookup = "miss") => cache' = cache]_vars

C18_Witness ==
    /\ answers = 2
    /\ DOMAIN cache # {}
    /\ enabled
    /\ lastAnswer[1].op = "answer"
    /\ ~lastAnswer[1].available
    /\ lastAnswer[1].lookup = "miss"
    /\ lastAnswer[1].ret = "none"

----------------------------------------------------------------------------
(* Claims on the metrics of the coordinator's agents                       *)

AgentIds == {AgentOrder[i] : i \in 1..Len(AgentOrder)}

\* The agent whose _run_planner or _run_agent call is between its
\* record_start and its outcome record, if any
AgentsBetweenRecords ==
    IF coPc = "planner" THEN {"planner_agent"}
    ELSE IF coPc = "agent_running" THEN {AuxAgents[coNext]}
    ELSE IF coPc = "web_running" THEN {"web_research_agent"}
    ELSE {}

\* One step of the registry entry of an agent: nothing, the start record,
\* or the one outcome record that ends the invocation begun by a start
\* record and counts it
MetricsStep(before, after) ==
    \/ after = before
    \/ /\ before.status # "running"
       /\ after = [before EXCEPT !.status = "running"]
    \/ /\ before.status = "running"
       /\ after.run_count = before.run_count + 1
       /\ \/ after.status = "ok" /\ after.last_error = NoError
          \/ after.status = "error" /\ after.last_error # NoError

\* C16: every agent invocation records start and then exactly one of
\* success and error under its agent id: run_count grows by 1 per invocation
\* (with the outcome record), the status is running only between the start
\* record and the outcome record, last_error is cleared on success and set
\* on error, and once MultiAgentCoordinator.answer has returned no agent is
\* left in status running.
C16_AgentMetricsRecorded ==
    /\ [](\A a \in AgentIds :
            MetricsOf(metrics, a).status = "running" <=> a \in AgentsBetweenRecords)
    /\ [](coPc \in {"idle", "done"} =>
            \A a \in AgentIds : MetricsOf(metrics, a).status # "running")
    /\ [][\A a \in AgentIds :
            MetricsStep(MetricsOf(metrics, a), MetricsOf(metrics', a))]_vars

C16_Witness ==
    /\ coPc = "done"
    /\ coRet = "plan"
    /\ MetricsOf(metrics, "planner_agent") =
          [status |-> "ok", run_count |-> 2, last_error |-> NoError]
    /\ MetricsOf(metrics, "proof_agent") =
          [status |-> "ok", run_count |-> 2, last_error |-> NoError]
    /\ MetricsOf(metrics, "intuition_agent").status = "error"
    /\ MetricsOf(metrics, "intuition_agent").run_count = 2
    /\ MetricsOf(metrics, "intuition_agent").last_error = "Empty output"

----------------------------------------------------------------------------
(* The agent registry under concurrent invocations: request threads and    *)
(* diagram workers run _run_agent for one agent id with no lock, one       *)
(* statement of record_start, record_success and record_error at a time;   *)
(* metrics.run_count += 1 reads the attribute and writes it back.          *)

\* The agent id the threads invoke
SharedAgent == "proof_agent"

\* A thread that has not entered _run_agent
RegThreadIdle == [pc |-> "start", outcome |-> "none", count |-> 0]

registryFrame == <<cacheVars, subject, putVars, jobVars, coPc, coNext, coPlanner,
                   coOutputs, coInvoked, coRet, coBase, coSolution, coRuns,
                   answerVars, plannerVars, startVars, checkerVars, enrichVars, simpleVars, deleteVars>>

RegStep(t, pc, next) ==
    /\ regThreads[t].pc = pc
    /\ regThreads' = [regThreads EXCEPT ![t] = next]
    /\ UNCHANGED registryFrame

\* record_start: metrics.status = "running"
RegStart(t) ==
    /\ RegStep(t, "start", [regThreads[t] EXCEPT !.pc = "generate"])
    /\ metrics' = record_start(metrics, SharedAgent)

\* engine.generate ends; record_success or record_error is entered and
\* sets metrics.status
RegStatus(t, outcome) ==
    /\ RegStep(t, "generate", [regThreads[t] EXCEPT !.pc = "read", !.outcome = outcome])
    /\ metrics' = SetMetrics(metrics, SharedAgent,
                    [MetricsOf(metrics, SharedAgent) EXCEPT
                        !.status = IF outcome = "output" THEN "ok" ELSE "error"])

\* metrics.run_count += 1, the read
RegReadCount(t) ==
    /\ RegStep(t, "read", [regThreads[t] EXCEPT
                              !.pc = "write",
                              !.count = MetricsOf(metrics, SharedAgent).run_count])
    /\ UNCHANGED metrics

\* metrics.run_count += 1, the write
RegWriteCount(t) ==
    /\ RegStep(t, "write", [regThreads[t] EXCEPT !.pc = "last_error"])
    /\ metrics' = SetMetrics(metrics, SharedAgent,
                    [MetricsOf(metrics, SharedAgent) EXCEPT
                        !.run_count = regThreads[t].count + 1])

\* metrics.last_error = None, or = error
RegLastError(t) ==
    /\ RegStep(t, "last_error", [regThreads[t] EXCEPT !.pc = "done"])
    /\ metrics' = SetMetrics(metrics, SharedAgent,
                    [MetricsOf(metrics, SharedAgent) EXCEPT
                        !.last_error = IF regThreads[t].outcome = "output" THEN NoError
                                       ELSE IF regThreads[t].outcome = "empty"
                                       THEN "Empty output" ELSE "exception"])

RegistryInit ==
    /\ CacheIdle
    /\ subject = <<>>
    /\ PutIdle
    /\ JobsIdle
    /\ CoordIdle /\ StartIdle /\ CheckerIdle /\ EnrichIdle /\ SimpleIdle /\ DeleteIdle
    /\ AnswerIdle
    /\ PlannerIdle
    /\ regThreads = [t \in Threads |-> RegThreadIdle]

RegistryNext ==
    \E t \in Threads :
        \/ RegStart(t)
        \/ \E outcome \in AgentOutcomes : RegStatus(t, outcome)
        \/ RegReadCount(t)
        \/ RegWriteCount(t)
        \/ RegLastError(t)

SpecRegistry == RegistryInit /\ [][RegistryNext]_vars

\* C17: once all the concurrent invocations of one agent id have finished,
\* its run_count is the number of invocations and its status is the outcome
\* of one of them, not running.
C17_NoMetricsUpdateLost ==
    (\A t \in Threads : regThreads[t].pc = "done") =>
        /\ MetricsOf(metrics, SharedAgent).run_count = NumThreads
        /\ MetricsOf(metrics, SharedAgent).status \in {"ok", "error"}

----------------------------------------------------------------------------
(* start_diagram_job to its return, and get_diagram_job of an id without   *)
(* a record, while the pool runs the jobs                                  *)

\* The return statement of start_diagram_job, had it handed back the record
\* as it was created
StartReturn_AsCreated(job_id) ==
    /\ job_id \in starting
    /\ starting' = starting \ {job_id}
    /\ started' = <<[job_id |-> job_id,
                     rec |-> [GetDiagramJob(diagram_jobs, job_id) EXCEPT
                                 !.status = "queued", !.progress = ProgressQueued],
                     picked |-> PickedUp(job_id),
                     stored |-> job_id \in DOMAIN diagram_jobs]>>
    /\ UNCHANGED <<jobVars, cache, startFrame>>

\* return self.get_diagram_job(job_id): start_diagram_job returns what the
\* job map holds for the id after the task was handed to the pool
StartReturn(job_id) ==
    /\ job_id \in starting
    /\ starting' = starting \ {job_id}
    /\ started' = <<[job_id |-> job_id,
                     rec |-> GetDiagramJob(diagram_jobs, job_id),
                     picked |-> PickedUp(job_id),
                     stored |-> job_id \in DOMAIN diagram_jobs]>>
    /\ UNCHANGED <<jobVars, cache, startFrame>>

\* get_diagram_job that stores the record it makes up
LookupDiagramJob_Stores(job_id) ==
    /\ polled' = <<[job_id |-> job_id, rec |-> GetDiagramJob(diagram_jobs, job_id),
                    picked |-> PickedUp(job_id)]>>
    /\ diagram_jobs' = (job_id :> GetDiagramJob(diagram_jobs, job_id)) @@ diagram_jobs
    /\ UNCHANGED <<enabled, settings, jobQueue, workers, ended, cache, jobFrame>>

\* get_diagram_job(job_id) by any caller, for any id
LookupDiagramJob(job_id) ==
    /\ polled' = <<[job_id |-> job_id, rec |-> GetDiagramJob(diagram_jobs, job_id),
                    picked |-> PickedUp(job_id)]>>
    /\ UNCHANGED <<enabled, settings, diagram_jobs, jobQueue, workers, ended, cache,
                   jobFrame>>

\* Number of jobs submitted in a run of this scenario
MaxStarts == 1

\* start_diagram_job, for the jobs of this scenario
SubmitJob(question) ==
    /\ Len(ended) < MaxStarts
    /\ StartDiagramJob(question)

\* get_diagram_job of an id the job map holds no record for
LookupAbsent(job_id) ==
    /\ job_id \notin DOMAIN diagram_jobs
    /\ LookupDiagramJob(job_id)

StartInit == JobsInit

StartNext ==
    \/ \E question \in JobQuestions : SubmitJob(question)
    \/ \E job_id \in JobIds : StartReturn(job_id)
    \/ \E w \in Workers : WorkerStart(w)
    \/ \E w \in Workers : WorkerFallback(w)
    \/ \E w \in Workers : WorkerAnswer(w)
    \/ \E w \in Workers : WorkerFinish(w)
    \/ \E job_id \in JobIds : DeleteDiagramJob(job_id)
    \/ \E job_id \in JobIds : LookupAbsent(job_id)

SpecStart == StartInit /\ [][StartNext]_vars

\* The record as start_diagram_job created it
AsCreated(rec) ==
    /\ rec.status = "queued"
    /\ rec.progress = ProgressQueued
    /\ rec.visualization = NoViz
    /\ rec.error = NoError

\* C19 as stated: start_diagram_job returns the freshly created record -
\* status queued, progress 5, no visualization, no error - for every
\* scheduling of the pool.
C19_StartReturnsCreatedRecord ==
    \A i \in 1..Len(started) : AsCreated(started[i].rec)

\* C19, amended: start_diagram_job returns the record the job map holds for
\* the new id when the call returns: the record as created (queued, 5, no
\* visualization, no error) when no pool thread has picked the job up by
\* then, the record as its pool thread has left it (running with 25, or
\* completed or error with 100) when one has, and the synthetic not_found
\* record when the job was deleted in between.
C19_StartReturnsStoredRecord ==
    \A i \in 1..Len(started) :
        LET s == started[i]
        IN  /\ (s.stored /\ ~s.picked) => AsCreated(s.rec)
            /\ (s.stored /\ s.picked) =>
                  /\ s.rec.status \in {"running", "completed", "error"}
                  /\ JobRecordConsistent(s.rec)
            /\ ~s.stored => s.rec = NotFoundRecord(s.job_id)

C19_Witness ==
    /\ started # <<>>
    /\ started[1].stored
    /\ started[1].picked
    /\ started[1].rec.status = "running"
    /\ started[1].rec.progress = ProgressRunning

\* C20: get_diagram_job(id) for an id the job map holds no record for, be
\* it never submitted or deleted, returns the synthetic record (status
\* not_found, progress 0, an error text) and leaves the job map as it is,
\* with no record for the id.
C20_UnknownJobNotFound ==
    [][polled' # polled =>
         LET p == polled'[1]
         IN  p.job_id \notin DOMAIN diagram_jobs =>
               /\ p.rec = NotFoundRecord(p.job_id)
               /\ p.rec.status = "not_found"
               /\ p.rec.progress = ProgressNotFound
               /\ p.rec.error # NoError
               /\ diagram_jobs' = diagram_jobs
               /\ p.job_id \notin DOMAIN diagram_jobs']_vars

C20_Witness ==
    /\ polled # <<>>
    /\ polled[1].job_id \in 1..Len(ended)
    /\ polled[1].job_id \notin DOMAIN diagram_jobs
    /\ polled[1].rec.status = "not_found"
    /\ \E w \in Workers : workers[w].job_id = polled[1].job_id

----------------------------------------------------------------------------
(* The plan invariant of TutorPlanner.plan (backend/app/ai/planner.py)     *)

\* C21: every plan returned by TutorPlanner.plan, from a JSON text or from
\* the loose parser, has no visualization when its needs_visualization is
\* false, and when the text gives no needs_visualization value,
\* needs_visualization tells whether a visualization block is there.
C21_PlanVisualizationInvariant ==
    \A i \in 1..Len(lastPlan) :
        LET a == lastPlan[i]
        IN  a.ret = "plan"
            => /\ ~a.plan.needs_visualization => a.plan.visualization = NoPlanViz
               /\ a.raw.needs = "absent"
                  => a.plan.needs_visualization = (a.raw.visualization # "absent")

----------------------------------------------------------------------------
(* SymbolicChecker (backend/app/ai/checker.py)                             *)

\* s.find(sub): the lowest index where sub starts in s, 0 when there is
\* none (Python's -1)
Find(s, sub) ==
    IF Contains(s, sub)
    THEN CHOOSE i \in 1..(Len(s) - Len(sub) + 1) :
            /\ SubSeq(s, i, i + Len(sub) - 1) = sub
            /\ \A j \in 1..(i - 1) : SubSeq(s, j, j + Len(sub) - 1) # sub
    ELSE 0

\* s.replace(old, new): every occurrence of old, left to right
RECURSIVE Replace(_, _, _)
Replace(s, old, new) ==
    IF Find(s, old) = 0 THEN s
    ELSE LET i == Find(s, old)
         IN  SubSeq(s, 1, i - 1) \o new
                \o Replace(SubSeq(s, i + Len(old), Len(s)), old, new)

\* s.strip(chars)
RECURSIVE LStripChars(_, _)
LStripChars(s, chars) ==
    IF s # <<>> /\ Head(s) \in chars THEN LStripChars(Tail(s), chars) ELSE s

RECURSIVE RStripChars(_, _)
RStripChars(s, chars) ==
    IF s # <<>> /\ s[Len(s)] \in chars
    THEN RStripChars(SubSeq(s, 1, Len(s) - 1), chars)
    ELSE s

StripChars(s, chars) == RStripChars(LStripChars(s, chars), chars)

\* The length of the run of blanks that starts at index i of s (\s*)
RECURSIVE Blanks(_, _)
Blanks(s, i) ==
    IF i <= Len(s) /\ s[i] \in Whitespace THEN 1 + Blanks(s, i + 1) ELSE 0

\* Whether the parts follow one another from index i of s with any blanks
\* between them (part \s* part \s* ...), and the index after the last part
RECURSIVE PartsAt(_, _, _)
PartsAt(s, i, parts) ==
    IF parts = <<>> THEN i
    ELSE LET p == Head(parts)
         IN  IF i + Len(p) - 1 <= Len(s) /\ SubSeq(s, i, i + Len(p) - 1) = p
             THEN IF Tail(parts) = <<>> THEN i + Len(p)
                  ELSE PartsAt(s, i + Len(p) + Blanks(s, i + Len(p)), Tail(parts))
             ELSE 0

\* re.search of parts set off by \s*: whether it matches somewhere in s
SearchParts(s, parts) == \E i \in 1..Len(s) : PartsAt(s, i, parts) # 0

\* question.lower().replace("^", "**")
PowerForm(question) == Replace(Lower(question), <<"^">>, <<"*","*">>)

\* The topic markers of SymbolicChecker.run
EigenMarkers == {<<"e","i","g","e","n">>}

DerivativeMarkers ==
    {<<"d","e","r","i","v","a","t","i","v","e">>,
     <<"d","i","f","f","e","r","e","n","t","i","a","t","e">>,
     <<"d","/","d","x">>}

IntegralMarkers ==
    {<<"i","n","t","e","g","r","a","l">>, <<"i","n","t","e","g","r","a","t","e">>}

EquationMarkers ==
    {<<"s","o","l","v","e">>, <<"r","o","o","t">>, <<"r","o","o","t","s">>,
     <<"e","q","u","a","t","i","o","n">>}

\* The phrases after which the target expression is looked for
DerivativePrefixes ==
    <<<<"d","e","r","i","v","a","t","i","v","e"," ","o","f">>,
      <<"d","i","f","f","e","r","e","n","t","i","a","t","e">>>>

IntegralPrefixes ==
    <<<<"i","n","t","e","g","r","a","l"," ","o","f">>,
      <<"i","n","t","e","g","r","a","t","e">>>>

\* No expression found (None); an expression is a non-empty text
NoExpr == <<>>

\* SymbolicChecker._extract_expression_from_question: the text after the
\* first prefix that leaves a non-empty expression
RECURSIVE ExtractExpression(_, _)
ExtractExpression(question, prefixes) ==
    IF prefixes = <<>> THEN NoExpr
    ELSE LET q == PowerForm(question)
             prefix == Head(prefixes)
             idx == Find(q, prefix)
             rest == StripChars(SubSeq(q, idx + Len(prefix), Len(q)),
                                {" ", ":", "?", ".", "!"})
             expr == Strip(Replace(
                        Replace(rest,
                                <<"w","i","t","h"," ","r","e","s","p","e","c","t",
                                  " ","t","o"," ","x">>, <<>>),
                        <<"w",".","r",".","t","."," ","x">>, <<>>))
         IN  IF idx # 0 /\ expr # <<>> THEN expr
             ELSE ExtractExpression(question, Tail(prefixes))

\* The line of s that starts at index i: up to the next newline ("." of a
\* regular expression matches no newline)
RECURSIVE LineEnd(_, _)
LineEnd(s, i) ==
    IF i <= Len(s) /\ s[i] # "\n" THEN LineEnd(s, i + 1) ELSE i - 1

\* \s*=\s*0 at index i of s
EqualsZeroAt(s, i) ==
    PartsAt(s, i + Blanks(s, i), <<<<"=">>, <<"0">>>>) # 0

\* The matches of solve\s+(.+?)\s*=\s*0 in s: where "solve" starts, how
\* many blanks \s+ takes, and where the group ends
SolveMatches(s) ==
    {m \in (1..Len(s)) \X (1..Len(s)) \X (1..Len(s)) :
        /\ m[1] + 4 <= Len(s)
        /\ SubSeq(s, m[1], m[1] + 4) = <<"s","o","l","v","e">>
        /\ m[2] <= Blanks(s, m[1] + 5)
        /\ m[3] >= m[1] + 5 + m[2]
        /\ m[3] <= LineEnd(s, m[1] + 5 + m[2])
        /\ EqualsZeroAt(s, m[3] + 1)}

\* The match re.search reports: the leftmost start, the longest \s+ and the
\* shortest group
FirstSolveMatch(s) ==
    CHOOSE m \in SolveMatches(s) :
        \A n \in SolveMatches(s) :
            \/ m[1] < n[1]
            \/ m[1] = n[1] /\ m[2] > n[2]
            \/ m[1] = n[1] /\ m[2] = n[2] /\ m[3] <= n[3]

\* The matches of roots?\s+of\s+(.+) in s: where "root" starts and where
\* the group starts (the group runs to the end of the line)
RootsOfMatches(s) ==
    {m \in (1..Len(s)) \X (1..Len(s)) :
        /\ m[1] + 3 <= Len(s)
        /\ SubSeq(s, m[1], m[1] + 3) = <<"r","o","o","t">>
        /\ \E k \in 0..1 :
              LET i == m[1] + 4 + k
                  j == i + Blanks(s, i)
              IN  /\ k = 1 => (i - 1 <= Len(s) /\ s[i - 1] = "s")
                  /\ Blanks(s, i) >= 1
                  /\ j + 1 <= Len(s)
                  /\ SubSeq(s, j, j + 1) = <<"o","f">>
                  /\ m[2] > j + 2
                  /\ m[2] <= j + 2 + Blanks(s, j + 2)
                  /\ LineEnd(s, m[2]) >= m[2]}

FirstRootsOfMatch(s) ==
    CHOOSE m \in RootsOfMatches(s) :
        \A n \in RootsOfMatches(s) :
            m[1] < n[1] \/ (m[1] = n[1] /\ m[2] >= n[2])

\* SymbolicChecker._extract_equation_lhs: the text between "solve" and
\* "= 0", or the text after "roots of"; NoExpr when neither is found
ExtractEquationLhs(question) ==
    LET q == PowerForm(question)
    IN  IF SolveMatches(q) # {}
        THEN LET m == FirstSolveMatch(q)
             IN  Strip(SubSeq(q, m[1] + 5 + m[2], m[3]))
        ELSE IF RootsOfMatches(q) # {}
        THEN LET m == FirstRootsOfMatch(q)
                 expr == StripChars(SubSeq(q, m[2], LineEnd(q, m[2])),
                                    {" ", "?", ".", "!"})
             IN  Strip(Replace(expr, <<"="," ","0">>, <<>>))
        ELSE NoExpr

\* Numbers are counted in units of 1/Scale, so that the decimal tokens of
\* a text and the tolerance 1e-3 are integers
Scale == 10000

\* abs(r - v) < 1e-3
RootTolerance == 10

DigitValue ==
    [c \in Digits |->
        CASE c = "0" -> 0 [] c = "1" -> 1 [] c = "2" -> 2 [] c = "3" -> 3
          [] c = "4" -> 4 [] c = "5" -> 5 [] c = "6" -> 6 [] c = "7" -> 7
          [] c = "8" -> 8 [] c = "9" -> 9]

\* The length of the run of digits that starts at index i of s (\d+)
RECURSIVE DigitsRun(_, _)
DigitsRun(s, i) ==
    IF i <= Len(s) /\ s[i] \in Digits THEN 1 + DigitsRun(s, i + 1) ELSE 0

\* int of the digits s[i..j]
RECURSIVE NatOf(_, _, _)
NatOf(s, i, j) ==
    IF j < i THEN 0 ELSE 10 * NatOf(s, i, j - 1) + DigitValue[s[j]]

\* The fraction .s[i..j] in units of 1/Scale, for up to four digits
FractionOf(s, i, j) ==
    CASE j - i + 1 = 1 -> 1000 * NatOf(s, i, j)
      [] j - i + 1 = 2 -> 100 * NatOf(s, i, j)
      [] j - i + 1 = 3 -> 10 * NatOf(s, i, j)
      [] OTHER -> NatOf(s, i, i + 3)

\* The token that -?\d+(?:\.\d+)? matches at index i of s: its length (0
\* when there is none) and float(token)
TokenAt(s, i) ==
    LET neg == i <= Len(s) /\ s[i] = "-"
        d == IF neg THEN i + 1 ELSE i
        n == DigitsRun(s, d)
        f == IF d + n <= Len(s) /\ s[d + n] = "." THEN DigitsRun(s, d + n + 1) ELSE 0
        whole == Scale * NatOf(s, d, d + n - 1)
        frac == IF f > 0 THEN FractionOf(s, d + n + 1, d + n + f) ELSE 0
        len == (d - i) + n + (IF f > 0 THEN f + 1 ELSE 0)
    IN  IF n = 0 THEN [len |-> 0, value |-> 0]
        ELSE [len |-> len, value |-> IF neg THEN 0 - (whole + frac) ELSE whole + frac]

\* SymbolicChecker._extract_numeric_values: re.findall from index i on,
\* left to right, the tokens not overlapping
RECURSIVE NumericValuesFrom(_, _)
NumericValuesFrom(s, i) ==
    IF i > Len(s) THEN <<>>
    ELSE LET t == TokenAt(s, i)
         IN  IF t.len = 0 THEN NumericValuesFrom(s, i + 1)
             ELSE <<t.value>> \o NumericValuesFrom(s, i + t.len)

ExtractNumericValues(text) == NumericValuesFrom(text, 1)

Abs(n) == IF n < 0 THEN 0 - n ELSE n

\* The expected roots no extracted number is within the tolerance of
MissingRoots(expected, extracted) ==
    {r \in expected :
        ~\E k \in 1..Len(extracted) : Abs(r - extracted[k]) < RootTolerance}

\* TutorCheck(name, status, details); details is the kind of the message
Check(name, status, details) == [name |-> name, status |-> status, details |-> details]

\* What a rule hands back: its checks, or an exception that leaves it
Checked(checks) == [raised |-> FALSE, checks |-> checks]

RuleRaised == [raised |-> TRUE, checks |-> <<>>]

PassIf(ok) == IF ok THEN "pass" ELSE "warn"

\* SymbolicChecker._check_eigen_structure
CheckEigenStructure(text) ==
    LET has_eigen_eq == SearchParts(text, <<<<"A","\\","m","a","t","h","b","f","{","v","}">>,
          <<"=">>, <<"\\","l","a","m","b","d","a">>>>)
        has_char_eq ==
            SearchParts(Lower(text), <<<<"d","e","t">>, <<"(","a">>, <<"-">>, <<"\\","l","a",
                  "m","b","d","a">>, <<"i",")">>>>)
    IN  Checked(<<Check("eigen_definition_equation", PassIf(has_eigen_eq),
                        IF has_eigen_eq THEN "present" ELSE "missing"),
                  Check("eigen_characteristic_equation", PassIf(has_char_eq),
                        IF has_char_eq THEN "present" ELSE "missing")>>)

\* SymbolicChecker._check_derivative_shape
CheckDerivativeShape(text) ==
    LET has_prime == \/ Contains(text, <<"'">>)
                     \/ Contains(text, <<"\\","f","r","a","c","{","d">>)
                     \/ Contains(Lower(text), <<"d","/","d","x">>)
    IN  Checked(<<Check("derivative_notation_present", PassIf(has_prime),
                        IF has_prime THEN "present" ELSE "missing")>>)

\* SymbolicChecker._check_integral_shape; sp tells whether SymPy was imported
CheckIntegralShape(sp, text) ==
    LET has_integral == Contains(text, <<"\\","i","n","t">>) \/ Contains(Lower(text), <<"i","n",
          "t","e","g","r","a","l">>)
    IN  Checked(<<Check("integral_notation_present", PassIf(has_integral),
                        IF has_integral THEN "present" ELSE "missing")>>
                \o IF sp /\ has_integral
                   THEN <<Check("sympy_runtime_available", "pass", "available")>>
                   ELSE <<>>)

\* re.sub(r"\s+", "", s)
RemoveBlanks(s) == SelectSeq(s, LAMBDA c : c \notin Whitespace)

\* SymbolicChecker._solution_contains_expression, for an expression whose
\* str() and LaTeX renderings are given
SolutionContainsExpression(solution, str, latex) ==
    LET normalized == RemoveBlanks(Lower(solution))
        candidates == {str, Replace(str, <<"*","*">>, <<"^">>), Replace(str, <<"*">>, <<>>), latex}
    IN  \E cand \in candidates :
            LET c == RemoveBlanks(Lower(cand))
            IN  /\ c # <<>>
                /\ \/ Contains(normalized, c)
                   \/ Contains(normalized, Replace(c, <<"*">>, <<>>))

\* The derivative and integral rules differ in their names and phrases only
SymbolicMatch(name, sp, expr, math, text) ==
    IF ~sp THEN Checked(<<Check(name, "warn", "unavailable")>>)
    ELSE IF expr = NoExpr THEN Checked(<<Check(name, "warn", "no_target")>>)
    ELSE IF math.parse = "raise" \/ math.compute = "raise"
    THEN Checked(<<Check(name, "warn", "failed")>>)
    ELSE LET ok == SolutionContainsExpression(text, math.str, math.latex)
         IN  Checked(<<Check(name, PassIf(ok), IF ok THEN "match" ELSE "no_match")>>)

\* SymbolicChecker._check_derivative_symbolic
CheckDerivativeSymbolic(sp, question, text) ==
    SymbolicMatch("derivative_symbolic_match", sp,
                  ExtractExpression(question.text, DerivativePrefixes),
                  question.derivative, text)

\* SymbolicChecker._check_integral_symbolic
CheckIntegralSymbolic(sp, question, text) ==
    SymbolicMatch("integral_symbolic_match", sp,
                  ExtractExpression(question.text, IntegralPrefixes),
                  question.integral, text)

\* sp.solve(sp.Eq(expression, 0), Symbol("x")): the roots in x; an equation
\* in another variable does not hold x and has no root in x. A root is
\* [value, real]: is_real, and float(root.evalf()) for a real root
Solve(equation) ==
    IF equation.var # "x" THEN {}
    ELSE {[value |-> r, real |-> TRUE] : r \in equation.real}
         \cup IF equation.nonreal THEN {[value |-> 0, real |-> FALSE]} ELSE {}

\* _check_equation_roots without its try block: an exception of parse_expr
\* or sp.solve leaves the rule
CheckEquationRoots_Unguarded(sp, question, text) ==
    LET name == "equation_roots_match"
        e == question.equation
    IN  IF ~sp THEN Checked(<<Check(name, "warn", "unavailable")>>)
        ELSE IF ExtractEquationLhs(question.text) = NoExpr
        THEN Checked(<<Check(name, "warn", "no_target")>>)
        ELSE IF e.parse = "raise" \/ e.compute = "raise"
        THEN RuleRaised
        ELSE IF Solve(e) = {} THEN Checked(<<Check(name, "warn", "no_roots")>>)
        ELSE LET expected == {r.value : r \in {s \in Solve(e) : s.real}}
                 missing == MissingRoots(expected, ExtractNumericValues(text))
             IN  IF expected = {} THEN Checked(<<Check(name, "warn", "non_real")>>)
                 ELSE Checked(<<Check(name, PassIf(missing = {}),
                                      IF missing = {} THEN "all_present" ELSE "missing")>>)

\* SymbolicChecker._check_equation_roots
CheckEquationRoots(sp, question, text) ==
    LET name == "equation_roots_match"
        e == question.equation
    IN  IF ~sp THEN Checked(<<Check(name, "warn", "unavailable")>>)
        ELSE IF ExtractEquationLhs(question.text) = NoExpr
        THEN Checked(<<Check(name, "warn", "no_target")>>)
        ELSE IF e.parse = "raise" \/ e.compute = "raise"
        THEN Checked(<<Check(name, "warn", "failed")>>)
        ELSE IF Solve(e) = {} THEN Checked(<<Check(name, "warn", "no_roots")>>)
        ELSE LET expected == {r.value : r \in {s \in Solve(e) : s.real}}
                 missing == MissingRoots(expected, ExtractNumericValues(text))
             IN  IF expected = {} THEN Checked(<<Check(name, "warn", "non_real")>>)
                 ELSE Checked(<<Check(name, PassIf(missing = {}),
                                      IF missing = {} THEN "all_present" ELSE "missing")>>)

\* The checks of the rules in the order run makes them; an exception that
\* leaves a rule leaves run
RECURSIVE Gather(_)
Gather(results) ==
    IF results = <<>> THEN Checked(<<>>)
    ELSE LET rest == Gather(Tail(results))
         IN  IF Head(results).raised \/ rest.raised THEN RuleRaised
             ELSE Checked(Head(results).checks \o rest.checks)

\* SymbolicChecker.run; question carries its text and what the expressions
\* in it are to SymPy, solution is a text
Run(sp, question, solution) ==
    LET q == Lower(question.text)
        text == Strip(solution)
        found ==
            Gather(
                (IF ContainsAny(q, EigenMarkers)
                 THEN <<CheckEigenStructure(text)>> ELSE <<>>)
                \o (IF ContainsAny(q, DerivativeMarkers)
                    THEN <<CheckDerivativeShape(text),
                           CheckDerivativeSymbolic(sp, question, text)>>
                    ELSE <<>>)
                \o (IF ContainsAny(q, IntegralMarkers)
                    THEN <<CheckIntegralShape(sp, text),
                           CheckIntegralSymbolic(sp, question, text)>>
                    ELSE <<>>)
                \o (IF ContainsAny(q, EquationMarkers)
                    THEN <<CheckEquationRoots(sp, question, text)>> ELSE <<>>))
    IN  IF text = <<>>
        THEN Checked(<<Check("non_empty_solution", "warn", "no_solution")>>)
        ELSE IF ~found.raised /\ found.checks = <<>>
        THEN Checked(<<Check("basic_symbolic_checker", "warn", "no_rule")>>)
        ELSE found

\* What an expression is to SymPy: whether parse_expr and the computation
\* (diff, integrate) raise, and str() and LaTeX of the result
NoMath == [parse |-> "none", compute |-> "none", str |-> <<>>, latex |-> <<>>]

Math(str, latex) == [parse |-> "ok", compute |-> "ok", str |-> str, latex |-> latex]

Unparsable == [parse |-> "raise", compute |-> "none", str |-> <<>>, latex |-> <<>>]

\* What an equation is: whether parse_expr and sp.solve raise, its
\* variable, its real roots in units of 1/Scale, and whether it has roots
\* that are not real
NoEquation ==
    [parse |-> "none", compute |-> "none", var |-> "x", real |-> {}, nonreal |-> FALSE]

Equation(var, real, nonreal) ==
    [parse |-> "ok", compute |-> "ok", var |-> var, real |-> real, nonreal |-> nonreal]

Question(text, derivative, integral, equation) ==
    [text |-> text, derivative |-> derivative, integral |-> integral,
     equation |-> equation]

CheckerQuestions ==
    {Question(<<"W","h","a","t"," ","i","s"," ","p","i">>, NoMath, NoMath, NoEquation),
     Question(<<"E","i","g","e","n">>, NoMath, NoMath, NoEquation),
     Question(<<"D","i","f","f","e","r","e","n","t","i","a","t","e"," ","x","^","2">>,
           Math(<<"2","*","x">>, <<"2"," ","x">>), NoMath, NoEquation),
     Question(<<"d","/","d","x"," ","o","f"," ","x">>, NoMath, NoMath, NoEquation),
     Question(<<"D","i","f","f","e","r","e","n","t","i","a","t","e"," ","x"," ","+">>,
           Unparsable, NoMath, NoEquation),
     Question(<<"I","n","t","e","g","r","a","l"," ","o","f"," ","x","^","2">>, NoMath,
           Math(<<"x","*","*","3","/","3">>, <<"\\","f","r","a","c","{","x","^","{","3","}","}",
                 "{","3","}">>),
              NoEquation),
     Question(<<"I","n","t","e","g","r","a","t","e"," ","x"," ","a","n","d"," ","d","i","f","f",
           "e","r","e","n","t","i","a","t","e"," ","t">>, Math(<<"0">>, <<"0">>), Unparsable,
              NoEquation),
     Question(<<"S","o","l","v","e"," ","x","^","2","-","5","x","+","6"," ","="," ","0">>,
           NoMath, NoMath,
              Equation("x", {2 * Scale, 3 * Scale}, FALSE)),
     Question(<<"S","o","l","v","e"," ","y","^","2","-","4"," ","="," ","0">>, NoMath, NoMath,
              Equation("y", {2 * Scale, 0 - 2 * Scale}, FALSE)),
     Question(<<"S","o","l","v","e"," ","2","x","-","1"," ","="," ","0">>, NoMath, NoMath,
           Equation("x", {Scale \div 2}, FALSE)),
     Question(<<"S","o","l","v","e"," ","x","^","2","+","1"," ","="," ","0">>, NoMath, NoMath,
           Equation("x", {}, TRUE)),
     Question(<<"S","o","l","v","e"," ","x","^","3","-","1"," ","="," ","0">>, NoMath, NoMath,
           Equation("x", {Scale}, TRUE)),
     Question(<<"S","o","l","v","e"," ","1"," ","="," ","0">>, NoMath, NoMath, Equation("x", {},
           FALSE)),
     Question(<<"S","o","l","v","e"," ","c","o","s","(","x",")","-","x"," ","="," ","0">>,
           NoMath, NoMath,
              [parse |-> "ok", compute |-> "raise", var |-> "x", real |-> {7391},
               nonreal |-> FALSE]),
     Question(<<"S","o","l","v","e"," ","x","+"," ","="," ","0">>, NoMath, NoMath,
              [parse |-> "raise", compute |-> "none", var |-> "x", real |-> {},
               nonreal |-> FALSE]),
     Question(<<"R","o","o","t","s"," ","o","f"," ","x","^","2","-","4">>, NoMath, NoMath,
              Equation("x", {2 * Scale, 0 - 2 * Scale}, FALSE)),
     Question(<<"A","n"," ","e","q","u","a","t","i","o","n">>, NoMath, NoMath, NoEquation)}

\* A solution: its text and the decimal numbers written in it, in units of
\* 1/Scale
Solution(text, numbers) == [text |-> text, numbers |-> numbers]

CheckerSolutions ==
    {Solution(<<>>, {}),
     Solution(<<" "," ">>, {}),
     Solution(<<"x"," ","="," ","2"," ","a","n","d"," ","x"," ","="," ","3">>, {2 * Scale,
           3 * Scale}),
     Solution(<<"x"," ","="," ","2">>, {2 * Scale}),
     Solution(<<"x"," ","="," ","2",".","0","0","0","4",","," ","3",".","0","0","2">>,
           {2 * Scale + 4, 3 * Scale + 20}),
     Solution(<<"x"," ","="," ","0",".","5">>, {Scale \div 2}),
     Solution(<<"x"," ","="," ",".","5">>, {Scale \div 2}),
     Solution(<<"y"," ","="," ","2"," ","o","r"," ","y"," ","="," ","-","2">>, {2 * Scale,
           0 - 2 * Scale}),
     Solution(<<"x"," ","="," ","1">>, {Scale}),
     Solution(<<"f","'","(","x",")"," ","="," ","2"," ","x">>, {2 * Scale}),
     Solution(<<"x","^","3","/","3"," ","+"," ","C">>, {3 * Scale}),
     Solution(<<"\\","i","n","t"," ","x"," ","d","x">>, {}),
     Solution(<<"A","\\","m","a","t","h","b","f","{","v","}"," ","="," ","\\","l","a","m","b",
           "d","a","\\","m","a","t","h","b","f","{","v","}">>, {}),
     Solution(<<"D","e","t","(","A"," ","-"," ","\\","l","a","m","b","d","a"," ","I",")"," ",
           "="," ","0">>, {0}),
     Solution(<<"n","o","n","e">>, {})}

checkerFrame == <<cacheVars, subject, putVars, jobVars, coordVars, answerVars,
                  plannerVars, registryVars, startVars, enrichVars, simpleVars, deleteVars>>

\* The arguments of a call of SymbolicChecker.run that has not been made
CheckerCall(sp, question, solution) ==
    [sp |-> sp, question |-> question, solution |-> solution, called |-> FALSE]
    @@ Checked(<<>>)

\* The call of SymbolicChecker.run with the arguments drawn
RunCall ==
    /\ lastCheck # <<>>
    /\ ~lastCheck[1].called
    /\ lastCheck' =
           <<[sp |-> lastCheck[1].sp, question |-> lastCheck[1].question,
              solution |-> lastCheck[1].solution, called |-> TRUE]
             @@ Run(lastCheck[1].sp, lastCheck[1].question, lastCheck[1].solution.text)>>
    /\ UNCHANGED checkerFrame

CheckerInit ==
    /\ CacheIdle
    /\ subject = <<>>
    /\ PutIdle
    /\ JobsIdle
    /\ CoordIdle /\ RegistryIdle /\ StartIdle /\ EnrichIdle /\ SimpleIdle /\ DeleteIdle
    /\ AnswerIdle
    /\ PlannerIdle
    /\ \E sp \in BOOLEAN, question \in CheckerQuestions, solution \in CheckerSolutions :
          lastCheck = <<CheckerCall(sp, question, solution)>>

CheckerNext == RunCall

SpecChecker == CheckerInit /\ [][CheckerNext]_vars

\* The checks of a list that carry a name
Named(checks, name) == {i \in 1..Len(checks) : checks[i].name = name}

\* A symbolic sub-check of a call met a failure of parse_expr or of the
\* computation
RuleFailed(sp, expr, math) ==
    sp /\ expr # NoExpr /\ (math.parse = "raise" \/ math.compute = "raise")

\* C22: SymbolicChecker.run never raises and returns a non-empty list of
\* checks whose status is pass or warn. An empty solution yields exactly
\* one warn; a question with no topic marker yields exactly one generic
\* warn; every rule whose marker is in the question yields each of its
\* checks once, whatever happens in the other rules; a symbolic sub-check
\* in which parsing or the computation fails is a warn; and without the
\* computer-algebra backend every symbolic sub-check of a matched rule is
\* a warn.
C22_CheckerNeverRaises ==
    \A k \in 1..Len(lastCheck) :
        LET a == lastCheck[k]
            q == Lower(a.question.text)
            text == Strip(a.solution.text)
            derivative == ContainsAny(q, DerivativeMarkers)
            integral == ContainsAny(q, IntegralMarkers)
            equation == ContainsAny(q, EquationMarkers)
            eigen == ContainsAny(q, EigenMarkers)
            Once(name) == Cardinality(Named(a.checks, name)) = 1
            Warn(name) == \A i \in Named(a.checks, name) : a.checks[i].status = "warn"
        IN  a.called
            => /\ ~a.raised
               /\ a.checks # <<>>
               /\ \A i \in 1..Len(a.checks) : a.checks[i].status \in {"pass", "warn"}
               /\ text = <<>>
                  => Len(a.checks) = 1 /\ a.checks[1].status = "warn"
               /\ (text # <<>> /\ ~(eigen \/ derivative \/ integral \/ equation))
                  => /\ Len(a.checks) = 1
                     /\ a.checks[1] = Check("basic_symbolic_checker", "warn", "no_rule")
               /\ text # <<>>
                  => /\ eigen => /\ Once("eigen_definition_equation")
                                 /\ Once("eigen_characteristic_equation")
                     /\ derivative => /\ Once("derivative_notation_present")
                                      /\ Once("derivative_symbolic_match")
                     /\ integral => /\ Once("integral_notation_present")
                                    /\ Once("integral_symbolic_match")
                     /\ equation => Once("equation_roots_match")
                     /\ RuleFailed(a.sp, ExtractExpression(a.question.text, DerivativePrefixes),
                                   a.question.derivative)
                        => Warn("derivative_symbolic_match")
                     /\ RuleFailed(a.sp, ExtractExpression(a.question.text, IntegralPrefixes),
                                   a.question.integral)
                        => Warn("integral_symbolic_match")
                     /\ RuleFailed(a.sp, ExtractEquationLhs(a.question.text),
                                   a.question.equation)
                        => Warn("equation_roots_match")
                     /\ ~a.sp => /\ Warn("derivative_symbolic_match")
                                 /\ Warn("integral_symbolic_match")
                                 /\ Warn("equation_roots_match")

\* A call in which parsing failed in the integral rule and the derivative
\* rule gave its checks
C22_Witness ==
    /\ lastCheck # <<>>
    /\ lastCheck[1].called
    /\ \E i \in Named(lastCheck[1].checks, "integral_symbolic_match") :
          lastCheck[1].checks[i].details = "failed"
    /\ Named(lastCheck[1].checks, "derivative_symbolic_match") # {}

\* The question has the form "solve <expr> = 0"
SolveForm(question) == SolveMatches(PowerForm(question.text)) # {}

\* Every real root of the equation is within 1e-3 of a decimal number
\* written in the solution
RootsWritten(question, solution) ==
    \A r \in question.equation.real :
        \E n \in solution.numbers : Abs(r - n) < RootTolerance

\* C23: for a question "solve <expr> = 0" whose equation has a real root,
\* equation_roots_match is pass exactly when every real root of the
\* equation is within 1e-3 of a decimal number written in the solution.
C23_RootsMatchIffAllPresent ==
    \A k \in 1..Len(lastCheck) :
        LET a == lastCheck[k]
        IN  (/\ a.called /\ a.sp
             /\ SolveForm(a.question)
             /\ a.question.equation.parse = "ok"
             /\ a.question.equation.compute = "ok"
             /\ a.question.equation.real # {})
            => ((\E i \in Named(a.checks, "equation_roots_match") :
                    a.checks[i].status = "pass")
                <=> RootsWritten(a.question, a.solution))

----------------------------------------------------------------------------
(* WebMathRAG.should_enrich and enrich_answer (backend/app/ai/web_rag.py)  *)
(* The globe sign of the two headings is written as the character "o".     *)

TOPIC_TRIGGERS ==
    {<<"h","a","m","i","l","t","o","n","i","a","n">>, <<"g","r","a","p","h"," ","t","h","e","o",
          "r","y">>, <<"r","i","e","m","a","n","n">>, <<"c","o","n","j","e","c","t","u","r","e">>,
     <<"c","a","t","e","g","o","r","y"," ","t","h","e","o","r","y">>, <<"t","o","p","o","l","o",
           "g","y">>, <<"n","u","m","b","e","r"," ","t","h","e","o","r","y">>, <<"s","p","e",
                 "c","t","r","a","l"," ","g","r","a","p","h">>,
     <<"o","p","e","n"," ","p","r","o","b","l","e","m">>, <<"l","a","t","e","s","t"," ","r","e",
           "s","e","a","r","c","h">>, <<"f","r","o","m"," ","w","e","b">>, <<"f","r","o","m",
                 " ","w","i","k","i","p","e","d","i","a">>,
     <<"r","e","c","e","n","t">>, <<"l","a","t","e","s","t">>}

LOW_CONFIDENCE_MARKERS ==
    {<<"i"," ","d","o","n","'","t"," ","h","a","v","e"," ","a"," ","s","p","e","c","i","f","i",
          "c"," ","l","e","s","s","o","n">>, <<"c","o","u","l","d"," ","n","o","t"," ","g","e",
                "n","e","r","a","t","e">>, <<"n","o","t"," ","a","v","a","i","l","a","b","l","e">>,
     <<"n","o"," ","c","a","t","a","l","o","g"," ","l","e","s","s","o","n"," ","m","a","t","c",
           "h","e","d">>}

EXISTING_WEB_MARKERS == {<<"w","e","b","-","v","e","r","i","f","i","e","d"," ","n","o","t","e",
      "s">>, <<"w","e","b"," ","r","a","g"," ","n","o","t","e","s">>, <<"*","*","s","o","u","r",
            "c","e","s","*","*">>}

\* should_enrich without the test for notes that are there already
ShouldEnrich_NoGuard(is_enabled, question, draft_answer) ==
    /\ is_enabled
    /\ \/ ContainsAny(Lower(question), TOPIC_TRIGGERS)
       \/ ContainsAny(Lower(draft_answer), LOW_CONFIDENCE_MARKERS)

\* WebMathRAG.should_enrich; is_enabled is the local_web_rag_enabled setting
ShouldEnrich(is_enabled, question, draft_answer) ==
    /\ is_enabled
    /\ ~ContainsAny(Lower(draft_answer), EXISTING_WEB_MARKERS)
    /\ \/ ContainsAny(Lower(question), TOPIC_TRIGGERS)
       \/ ContainsAny(Lower(draft_answer), LOW_CONFIDENCE_MARKERS)

\* "\n".join(lines)
RECURSIVE JoinLines(_)
JoinLines(lines) ==
    IF lines = <<>> THEN <<>>
    ELSE IF Len(lines) = 1 THEN lines[1]
    ELSE lines[1] \o <<"\n">> \o JoinLines(Tail(lines))

\* snippet.split(".")[0]
FirstSentence(snippet) ==
    IF Find(snippet, <<".">>) = 0 THEN snippet
    ELSE SubSeq(snippet, 1, Find(snippet, <<".">>) - 1)

\* WebMathRAG._build_notes, for at most three snippets
BuildNotes(snippets) ==
    JoinLines([i \in 1..Len(snippets) |->
        LET first == Strip(FirstSentence(snippets[i].snippet))
            sentence == IF Len(first) < 20 THEN Strip(snippets[i].snippet) ELSE first
        IN  <<"-"," ","*","*">> \o snippets[i].title \o <<"*","*",":"," ">> \o sentence \o <<".">>])

\* The source list of enrich_answer
SourceLines(snippets) ==
    JoinLines([i \in 1..Len(snippets) |->
        <<"-"," ">> \o snippets[i].title \o <<":"," ">> \o snippets[i].url])

\* WebMathRAG.enrich_answer; snippets is what retrieve yields
EnrichAnswer(is_enabled, question, answer, snippets) ==
    IF ~ShouldEnrich(is_enabled, question, answer) THEN answer
    ELSE IF snippets = <<>> THEN answer
    ELSE Strip(RStrip(answer) \o <<"\n","\n","o"," ","*","*","W","e","b"," ","R","A","G"," ",
          "N","o","t","e","s","*","*","\n">> \o BuildNotes(snippets)
               \o <<"\n","\n","*","*","S","o","u","r","c","e","s","*","*",
                     "\n">> \o SourceLines(snippets))

\* A answer of MultiAgentCoordinator.answer that holds its web-research
\* section: heading, newline, the agent's output, after a blank line
WithWebResearchSection(solution, web_context) ==
    RStrip(solution) \o <<"\n","\n">> \o <<"o"," ","*","*","W","e","b","-","V","e","r","i","f",
          "i","e","d"," ","N","o","t","e","s","*","*","\n">> \o web_context

\* What retrieve yields: nothing, or snippets
RetrievedSnippets ==
    {<<>>,
     <<[title |-> <<"T">>, snippet |-> <<"s","."," ","t">>, url |-> <<"u">>]>>,
     <<[title |-> <<"T">>, snippet |-> <<"A"," ","H","a","m","i","l","t","o","n","i","a","n",
           " ","c","y","c","l","e"," ","v","i","s","i","t","s","."," ","I","t">>, url |-> <<"u">>],
       [title |-> <<"V">>, snippet |-> <<"s">>, url |-> <<"w">>]>>}

EnrichQuestions == {<<"R","e","c","e","n","t"," ","p","r","i","m","e","s">>, <<"p","i">>, <<"L",
      "A","T","E","S","T">>}

EnrichAnswers ==
    {<<"a"," ">>, <<"N","o","t"," ","a","v","a","i","l","a","b","l","e">>,
     WithWebResearchSection(<<"a"," ">>, <<"-"," ","n","\n","S","o","u","r","c","e","s",":"," ",
           "u">>),
     <<"a","\n","\n","*","*","S","O","U","R","C","E","S","*","*","\n","-"," ","T",":"," ","u">>}

\* The calls of enrich_answer made on an answer
MaxEnrichCalls == 2

\* How often a part occurs in a text
RECURSIVE Occurrences(_, _)
Occurrences(s, part) ==
    IF Find(s, part) = 0 THEN 0
    ELSE 1 + Occurrences(SubSeq(s, Find(s, part) + Len(part), Len(s)), part)

\* The web-sourced notes sections of an answer: the headings of
\* enrich_answer and of the coordinator
WebSections(answer) ==
    Occurrences(Lower(answer), <<"w","e","b"," ","r","a","g"," ","n","o","t","e","s">>)
    + Occurrences(Lower(answer), <<"w","e","b","-","v","e","r","i","f","i","e","d"," ","n","o",
          "t","e","s">>)

enrichFrame == <<cacheVars, subject, putVars, jobVars, coordVars, answerVars,
                 plannerVars, registryVars, startVars, checkerVars, simpleVars, deleteVars>>

\* A call of enrich_answer on the answer held: the first on the draft, the
\* next on what the call before returned
EnrichCall(is_enabled, snippets) ==
    /\ lastEnrich # <<>>
    /\ lastEnrich[1].calls < MaxEnrichCalls
    /\ lastEnrich' =
           <<[lastEnrich[1] EXCEPT
                !.calls = @ + 1,
                !.is_enabled = is_enabled,
                !.snippets = snippets,
                !.should = ShouldEnrich(is_enabled, lastEnrich[1].question,
                                        lastEnrich[1].result),
                !.given = lastEnrich[1].result,
                !.result = EnrichAnswer(is_enabled, lastEnrich[1].question,
                                        lastEnrich[1].result, snippets)]>>
    /\ UNCHANGED enrichFrame

EnrichInit ==
    /\ CacheIdle
    /\ subject = <<>>
    /\ PutIdle
    /\ JobsIdle
    /\ CoordIdle /\ RegistryIdle /\ StartIdle /\ CheckerIdle /\ SimpleIdle /\ DeleteIdle
    /\ AnswerIdle
    /\ PlannerIdle
    /\ \E question \in EnrichQuestions, answer \in EnrichAnswers :
          lastEnrich = <<[question |-> question, draft |-> answer, calls |-> 0,
                          is_enabled |-> FALSE, snippets |-> <<>>, should |-> FALSE,
                          given |-> answer, result |-> answer]>>

EnrichNext ==
    \E is_enabled \in BOOLEAN, snippets \in RetrievedSnippets :
        EnrichCall(is_enabled, snippets)

SpecEnrich == EnrichInit /\ [][EnrichNext]_vars

\* C24: should_enrich is false for a draft that holds a web-notes section
\* or a source list, so a call of enrich_answer on what a call returned
\* that added notes, or on an answer with the coordinator's web-research
\* section, gives its argument back, with the same retrieval result
\* enrich_answer(q, enrich_answer(q, a)) = enrich_answer(q, a), and the
\* answer never holds more than one web-sourced notes section.
C24_EnrichmentIdempotent ==
    \A k \in 1..Len(lastEnrich) :
        LET e == lastEnrich[k]
        IN  e.calls > 0
            => /\ ContainsAny(Lower(e.given), EXISTING_WEB_MARKERS)
                  => ~e.should /\ e.result = e.given
               /\ e.result = EnrichAnswer(e.is_enabled, e.question, e.result, e.snippets)
               /\ WebSections(e.result) <= 1

\* A second call on an answer the first call added notes to
C24_Witness ==
    /\ lastEnrich # <<>>
    /\ lastEnrich[1].calls = 2
    /\ WebSections(lastEnrich[1].draft) = 0
    /\ WebSections(lastEnrich[1].given) = 1
    /\ lastEnrich[1].is_enabled
    /\ lastEnrich[1].snippets # <<>>

----------------------------------------------------------------------------
(* The keyword sets of VisualizationPlanner                                *)

\* C25: every question VisualizationPlanner.plan has a recipe for is a
\* visual topic: is_visual_topic(question) is true whenever plan(question)
\* returns a recipe.
C25_RecipeImpliesVisualTopic ==
    \A k \in 1..Len(lastAnswer) :
        LET a == lastAnswer[k]
        IN  (a.op = "answer" /\ VisualPlan(a.question) # NoRecipe)
            => is_visual_topic(a.question)

----------------------------------------------------------------------------
(* The pool of _diagram_executor: three jobs for its two threads           *)

\* Number of jobs submitted in a run of this scenario: one more than the
\* pool has threads
MaxPoolJobs == 3

PoolJobIds == 1..MaxPoolJobs

\* start_diagram_job up to its return statement, for the jobs of this
\* scenario: the record is stored and the task handed to the pool.
StartPoolJob(question) ==
    /\ Len(ended) < MaxPoolJobs
    /\ LET job_id == Len(ended) + 1
       IN  /\ diagram_jobs' = (job_id :> QueuedRecord(job_id, question)) @@ diagram_jobs
           /\ jobQueue' = Append(jobQueue, [job_id |-> job_id, question |-> question])
           /\ starting' = starting \cup {job_id}
    /\ ended' = Append(ended, "pending")
    /\ UNCHANGED <<enabled, settings, workers, polled, cache, started, startFrame>>

PoolInit ==
    /\ JobsInit
    /\ settings = DefaultSettings

PoolNext ==
    \/ StartPoolJob(QLimit)
    \/ \E job_id \in PoolJobIds : StartReturn(job_id)
    \/ \E w \in Workers : WorkerStart(w)
    \/ \E w \in Workers : WorkerFallback(w)
    \/ \E w \in Workers : WorkerAnswer(w)
    \/ \E w \in Workers : WorkerFinish(w)
    \/ \E job_id \in PoolJobIds : DeleteDiagramJob(job_id)

SpecPool == PoolInit /\ [][PoolNext]_vars

\* The stored jobs with status running
RunningJobs == {j \in DOMAIN diagram_jobs : diagram_jobs[j].status = "running"}

\* The pool threads that are inside _run_diagram_job
BusyWorkers == {w \in Workers : workers[w].pc # "idle"}

\* The step is the return statement of a start_diagram_job call.
StartReturns == starting' # starting /\ starting' \subseteq starting

\* C26: at most 2 stored jobs have status running, no job is run by two
\* pool threads (neither at once nor one after the other), and the return
\* statement of start_diagram_job, which comes after the task was handed
\* to the pool, leaves every record as it is.
C26_PoolOwnsJobs ==
    /\ [](Cardinality(RunningJobs) <= PoolSize)
    /\ [](\A w1, w2 \in BusyWorkers : w1 # w2 => workers[w1].job_id # workers[w2].job_id)
    /\ [][\A w \in Workers :
            (workers[w].pc = "idle" /\ workers'[w].pc # "idle") =>
                /\ ended[workers'[w].job_id] = "pending"
                /\ \A v \in Workers : workers[v].job_id # workers'[w].job_id
                /\ \E i \in 1..Len(jobQueue) : jobQueue[i].job_id = workers'[w].job_id
                /\ \A i \in 1..Len(jobQueue') : jobQueue'[i].job_id # workers'[w].job_id
         ]_vars
    /\ [][StartReturns => diagram_jobs' = diagram_jobs]_vars

\* The last three parts of C26 alone: ownership and the hand-off
PoolOwnership ==
    /\ [](\A w1, w2 \in BusyWorkers : w1 # w2 => workers[w1].job_id # workers[w2].job_id)
    /\ [][\A w \in Workers :
            (workers[w].pc = "idle" /\ workers'[w].pc # "idle") =>
                /\ ended[workers'[w].job_id] = "pending"
                /\ \A v \in Workers : workers[v].job_id # workers'[w].job_id
                /\ \E i \in 1..Len(jobQueue) : jobQueue[i].job_id = workers'[w].job_id
                /\ \A i \in 1..Len(jobQueue') : jobQueue'[i].job_id # workers'[w].job_id
         ]_vars
    /\ [][StartReturns => diagram_jobs' = diagram_jobs]_vars

----------------------------------------------------------------------------
(* SimpleCache (backend/app/cache.py) called directly: get, set, delete,   *)
(* clear and cleanup_expired                                               *)

\* ttl=None
NoTtl == -1

\* expires_at = None
NoExpiry == -1

\* SimpleCache.set at time t: expires_at = time.time() + ttl if ttl else None
\* (a ttl of 0 is false, as None is)
SimpleCacheSet(c, t, key, value, ttl) ==
    [k \in DOMAIN c \cup {key} |->
        IF k = key
        THEN [value |-> value,
              expires_at |-> IF ttl = NoTtl \/ ttl = 0 THEN NoExpiry ELSE t + ttl]
        ELSE c[k]]

\* expires_at and time.time() > expires_at
Expired(entry, t) == entry.expires_at # NoExpiry /\ t > entry.expires_at

\* SimpleCache.get at time t: the value returned and the dict afterwards
SimpleCacheGet(c, t, key) ==
    IF key \notin DOMAIN c THEN [value |-> None, cache |-> c]
    ELSE IF Expired(c[key], t)
         THEN [value |-> None, cache |-> DropKey(c, key)]
         ELSE [value |-> c[key].value, cache |-> c]

\* SimpleCache.delete: what it returns and the dict afterwards
SimpleCacheDelete(c, key) ==
    IF key \in DOMAIN c THEN [deleted |-> TRUE, cache |-> DropKey(c, key)]
    ELSE [deleted |-> FALSE, cache |-> c]

\* SimpleCache.clear
SimpleCacheClear(c) == <<>>

\* SimpleCache.cleanup_expired at time t: the count returned and the dict
\* afterwards
SimpleCacheCleanupExpired(c, t) ==
    LET expired == {k \in DOMAIN c : Expired(c[k], t)}
    IN  [removed |-> Cardinality(expired),
         cache |-> [k \in DOMAIN c \ expired |-> c[k]]]

\* The keys, values and ttls of the direct calls, and the last reading of
\* the clock
SimpleKeys == {"key1", "key2"}

SimpleValues == {TupleValue(<<1, NoViz>>), TupleValue(<<2, NoViz>>)}

SimpleTtls == {NoTtl, 0, 1, 2}

MaxClock == 3

\* What the direct cache calls leave alone
simpleFrame == <<history, lastGet, subject, putVars, jobVars, coordVars, answerVars,
                 plannerVars, registryVars, startVars, checkerVars, enrichVars, deleteVars>>

\* The sets in force before the call: for each key, the last set made for
\* it, unless a delete of the key or a clear came after
WrittenBefore == IF lastCacheOp = <<>> THEN <<>> ELSE lastCacheOp[1].written

\* The observer after a call
CacheOp(op, key, value, deleted, removed, written) ==
    <<[op |-> op, key |-> key, value |-> value, deleted |-> deleted,
       removed |-> removed, before |-> cache, at |-> now,
       writtenBefore |-> WrittenBefore, written |-> written]>>

SetCall(key, value, ttl) ==
    /\ cache' = SimpleCacheSet(cache, now, key, value, ttl)
    /\ lastCacheOp' = CacheOp("set", key, None, FALSE, 0,
                              (key :> [value |-> value, ttl |-> ttl, at |-> now])
                                  @@ WrittenBefore)
    /\ UNCHANGED <<now, simpleFrame>>

GetCall(key) ==
    /\ \E g \in {SimpleCacheGet(cache, now, key)} :
          /\ cache' = g.cache
          /\ lastCacheOp' = CacheOp("get", key, g.value, FALSE, 0, WrittenBefore)
    /\ UNCHANGED <<now, simpleFrame>>

DeleteCall(key) ==
    /\ \E d \in {SimpleCacheDelete(cache, key)} :
          /\ cache' = d.cache
          /\ lastCacheOp' = CacheOp("delete", key, None, d.deleted, 0,
                                    DropKey(WrittenBefore, key))
    /\ UNCHANGED <<now, simpleFrame>>

ClearCall ==
    /\ cache' = SimpleCacheClear(cache)
    /\ lastCacheOp' = CacheOp("clear", "", None, FALSE, 0, <<>>)
    /\ UNCHANGED <<now, simpleFrame>>

CleanupCall ==
    /\ \E r \in {SimpleCacheCleanupExpired(cache, now)} :
          /\ cache' = r.cache
          /\ lastCacheOp' = CacheOp("cleanup_expired", "", None, FALSE, r.removed,
                                    WrittenBefore)
    /\ UNCHANGED <<now, simpleFrame>>

\* time passes, a second at a time
ClockTick ==
    /\ now < MaxClock
    /\ now' = now + 1
    /\ UNCHANGED <<cache, lastCacheOp, simpleFrame>>

SimpleInit ==
    /\ CacheIdle /\ subject = <<>> /\ PutIdle /\ JobsIdle
    /\ CoordIdle /\ AnswerIdle /\ PlannerIdle /\ RegistryIdle /\ StartIdle /\ DeleteIdle
    /\ CheckerIdle /\ EnrichIdle /\ SimpleIdle

SimpleNext ==
    \/ \E key \in SimpleKeys, value \in SimpleValues, ttl \in SimpleTtls :
          SetCall(key, value, ttl)
    \/ \E key \in SimpleKeys : GetCall(key)
    \/ \E key \in SimpleKeys : DeleteCall(key)
    \/ ClearCall
    \/ CleanupCall
    \/ ClockTick

SpecSimpleCache == SimpleInit /\ [][SimpleNext]_vars

\* The ttl of the set w has elapsed at time t.
TtlElapsed(w, t) == w.ttl # NoTtl /\ t > w.at + w.ttl

\* The ttl of the set w has elapsed at time t, a ttl of 0 read as no ttl.
PositiveTtlElapsed(w, t) == w.ttl # NoTtl /\ w.ttl # 0 /\ t > w.at + w.ttl

\* C27: get(k) returns the last value set for k until its TTL elapses and
\* None afterwards, and None if k was never set, was deleted or the cache
\* was cleared; delete(k) returns True exactly when k was present;
\* cleanup_expired() removes exactly the entries whose TTL has elapsed,
\* returns their count, and leaves the unexpired entries readable.
C27_SimpleCacheContract ==
    \A i \in 1..Len(lastCacheOp) :
        LET o == lastCacheOp[i]
            w == o.writtenBefore
            elapsed == {k \in DOMAIN o.before : TtlElapsed(w[k], o.at)}
        IN  /\ o.op = "get" =>
                  o.value = IF o.key \in DOMAIN w /\ ~TtlElapsed(w[o.key], o.at)
                            THEN w[o.key].value ELSE None
            /\ o.op = "delete" =>
                  /\ o.deleted = (o.key \in DOMAIN o.before)
                  /\ o.key \notin DOMAIN cache
            /\ o.op = "cleanup_expired" =>
                  /\ DOMAIN cache = DOMAIN o.before \ elapsed
                  /\ o.removed = Cardinality(elapsed)
                  /\ \A k \in DOMAIN cache :
                        SimpleCacheGet(cache, o.at, k).value = w[k].value

\* The contract with a ttl of 0 read as no ttl
SimpleCacheContractOfPositiveTtl ==
    \A i \in 1..Len(lastCacheOp) :
        LET o == lastCacheOp[i]
            w == o.writtenBefore
            elapsed == {k \in DOMAIN o.before : PositiveTtlElapsed(w[k], o.at)}
        IN  /\ o.op = "get" =>
                  o.value = IF o.key \in DOMAIN w /\ ~PositiveTtlElapsed(w[o.key], o.at)
                            THEN w[o.key].value ELSE None
            /\ o.op = "delete" =>
                  /\ o.deleted = (o.key \in DOMAIN o.before)
                  /\ o.key \notin DOMAIN cache
            /\ o.op = "cleanup_expired" =>
                  /\ DOMAIN cache = DOMAIN o.before \ elapsed
                  /\ o.removed = Cardinality(elapsed)
                  /\ \A k \in DOMAIN cache :
                        SimpleCacheGet(cache, o.at, k).value = w[k].value

----------------------------------------------------------------------------
(* delete_diagram_job with its return value observed, while the pool runs  *)
(* the jobs and a client polls                                             *)

\* self._diagram_jobs.pop(job_id, None) is not None: what delete_diagram_job
\* returns and the job map afterwards
PopDiagramJob(jobs, job_id) ==
    [ret |-> job_id \in DOMAIN jobs, jobs |-> DropKey(jobs, job_id)]

\* What delete_diagram_job leaves alone beside the job variables
deleteFrame == <<now, history, lastGet, subject, putVars, coordVars, answerVars,
                 plannerVars, registryVars, startVars, checkerVars, enrichVars,
                 simpleVars>>

\* GenerativeTutorService.delete_diagram_job, for an id that was issued; the
\* observer keeps the status the job had, "absent" when it had no record.
DeleteJobCall(job_id) ==
    /\ job_id \in 1..Len(ended)
    /\ \E p \in {PopDiagramJob(diagram_jobs, job_id)} :
          /\ diagram_jobs' = p.jobs
          /\ lastDelete' = <<[job_id |-> job_id, ret |-> p.ret,
                              status |-> IF job_id \in DOMAIN diagram_jobs
                                         THEN diagram_jobs[job_id].status
                                         ELSE "absent"]>>
    /\ UNCHANGED <<enabled, settings, jobQueue, workers, ended, polled, cache,
                   deleteFrame>>

DeleteInit ==
    /\ JobsInit
    /\ settings = DefaultSettings

DeleteNext ==
    \/ \E q \in JobQuestions : StartDiagramJob(q)
    \/ \E w \in Workers : WorkerStart(w)
    \/ \E w \in Workers : WorkerFallback(w)
    \/ \E w \in Workers : WorkerAnswer(w)
    \/ \E w \in Workers : WorkerFinish(w)
    \/ \E j \in JobIds : PollDiagramJob(j)
    \/ \E j \in JobIds : DeleteJobCall(j)

SpecDelete == DeleteInit /\ [][DeleteNext]_vars

\* The step is a delete_diagram_job(j) call made while job j was queued or
\* running.
DeletedInFlight(j) ==
    /\ lastDelete' # lastDelete
    /\ lastDelete'[1].job_id = j
    /\ lastDelete'[1].status \in {"queued", "running"}

\* The step is a step of the pool thread inside the task of job j.
TaskStep(j) ==
    \E w \in Workers : workers[w].job_id = j /\ workers'[w] # workers[w]

\* C28: delete_diagram_job of a queued or running job returns True and
\* removes its record, leaving the records of all other jobs as they are;
\* a job without a record never gets one again, the steps of its task
\* change no record, and every poll of its id returns not_found.
C28_DeleteInFlightIsFinal ==
    [][\A j \in JobIds :
          /\ DeletedInFlight(j) =>
                /\ lastDelete'[1].ret
                /\ DOMAIN diagram_jobs' = DOMAIN diagram_jobs \ {j}
                /\ \A k \in DOMAIN diagram_jobs' : diagram_jobs'[k] = diagram_jobs[k]
          /\ (j \in 1..Len(ended) /\ j \notin DOMAIN diagram_jobs) =>
                /\ j \notin DOMAIN diagram_jobs'
                /\ TaskStep(j) => diagram_jobs' = diagram_jobs
                /\ (polled' # polled /\ polled'[1].job_id = j) =>
                      /\ polled'[1].rec = NotFoundRecord(j)
                      /\ polled'[1].rec.status = "not_found"
      ]_vars

\* Job 1 was deleted while it was running, its task has since run to its
\* end, a poll of its id got not_found, and job 2 is completed.
C28_Witness ==
    /\ lastDelete # <<>>
    /\ lastDelete[1].status = "running"
    /\ lastDelete[1].ret
    /\ ended[lastDelete[1].job_id] = "returned"
    /\ lastDelete[1].job_id \notin DOMAIN diagram_jobs
    /\ polled # <<>>
    /\ polled[1].job_id = lastDelete[1].job_id
    /\ polled[1].rec.status = "not_found"
    /\ \E k \in DOMAIN diagram_jobs : diagram_jobs[k].status = "completed"

----------------------------------------------------------------------------
(* answer and the settings store                                           *)

\* The step is a call of answer.
AnswerMade == CallMade /\ lastAnswer'[1].op = "answer"

\* With local_ai_enabled false in the settings store, a call of answer
\* returns no answer, generated or cached.
NoAnswerWhileSwitchedOff ==
    [][(AnswerMade /\ ~EffectiveSettings(settings).local_ai_enabled)
          => lastAnswer'[1].ret # "answer"]_vars

\* With local_ai_enabled true in the settings store, a call of answer gets
\* to its cache lookup, whatever the setting was at the calls before it.
AnswersWhileSwitchedOn ==
    [][(AnswerMade /\ EffectiveSettings(settings).local_ai_enabled)
          => lastAnswer'[1].lookup # "skipped"]_vars

\* C29: whether a call of answer answers is determined by the value of
\* local_ai_enabled in the settings store at the time of the call: while it
\* is false no call returns an answer, generated or cached, and once it is
\* true again the calls go on to answer (they get to the cache lookup and,
\* on a miss, to the generation).
C29_AnswerFollowsCurrentSettings ==
    [][AnswerMade =>
          IF EffectiveSettings(settings).local_ai_enabled
          THEN lastAnswer'[1].lookup # "skipped"
          ELSE lastAnswer'[1].ret # "answer"]_vars

----------------------------------------------------------------------------
(* answer and the cache, with the clock running between the calls          *)

\* The settings the store holds between the calls of this scenario
TimedSettings == {DefaultSettings, [DefaultSettings EXCEPT !.local_ai_enabled = FALSE]}

TimedNext ==
    \/ \E question \in AnswerQuestions, available \in BOOLEAN,
          o \in GenerationOutcomes(DefaultSettings),
          own \in ExecOutcomes, rec \in ExecOutcomes :
            AnswerCall(question, available, o, own, rec)
    \/ \E st \in TimedSettings : UpdateSettings(st)
    \/ Tick

SpecAnswerTimed == AnswerInit /\ [][TimedNext]_vars

\* The call of the step was served from the cache.
ServedFromCache == AnswerMade /\ lastAnswer'[1].lookup = "hit"

\* The call of the step returned None.
ReturnedNone == AnswerMade /\ lastAnswer'[1].ret = "none"

\* A call served from the cache makes no generation call, runs no
\* visualization and does not write to the cache; a call that writes to
\* the cache made a generation call that yielded a plan.
WritesOnlyAfterGeneration ==
    /\ ServedFromCache =>
          /\ lastAnswer'[1].ret = "answer"
          /\ ~lastAnswer'[1].called /\ ~lastAnswer'[1].planned
          /\ ~lastAnswer'[1].vizTried /\ ~lastAnswer'[1].ownRan
          /\ ~lastAnswer'[1].recipeRan
          /\ ~lastAnswer'[1].wrote
    /\ ReturnedNone => ~lastAnswer'[1].wrote
    /\ (AnswerMade /\ lastAnswer'[1].wrote) =>
          lastAnswer'[1].called /\ lastAnswer'[1].planned

\* C30 as stated: a call of answer that returns None leaves the cache dict
\* as it is, a call served from the cache makes no generation call, runs no
\* visualization and leaves the cache dict as it is, and only a call that
\* obtained a plan writes to the cache.
C30_CacheUntouchedWithoutGeneration ==
    [][/\ WritesOnlyAfterGeneration
       /\ (ReturnedNone \/ ServedFromCache) => cache' = cache]_vars

\* C30, amended: a call of answer that returns None, and a call served from
\* the cache, set no cache entry: every entry that has not expired stays as
\* it is, expiry time included, so a hit does not extend a lifetime; the
\* only entries such a call removes are expired ones its lookup came across
\* (the exact-key slot of the question, the recency buffer). A call served
\* from the cache makes no generation call and runs no visualization, and
\* only a call that obtained a plan writes to the cache.
C30_OnlyExpiredEntriesDropped ==
    [][/\ WritesOnlyAfterGeneration
       /\ (ReturnedNone \/ ServedFromCache) =>
             /\ DOMAIN cache' \subseteq DOMAIN cache
             /\ \A k \in DOMAIN cache' : cache'[k] = cache[k]
             /\ \A k \in DOMAIN cache \ DOMAIN cache' :
                   /\ now > cache[k].expires_at
                   /\ k \in {ExactKey(lastAnswer'[1].question), RecentKey}]_vars

\* The second call was served from the cache half a TTL after the first
\* stored its answer, and the entries still expire when they did.
C30_Witness ==
    /\ answers = 2
    /\ lastAnswer[1].op = "answer"
    /\ lastAnswer[1].lookup = "hit"
    /\ now = TickStep
    /\ \A k \in DOMAIN cache : cache[k].expires_at = cache_ttl_seconds
    /\ ExactKey(lastAnswer[1].question) \in DOMAIN cache

====
